---- MODULE Spec2Model ----
(***************************************************************************)
(* A model of the OSRS Wiki bucket query builder (BucketQueryBuilder,      *)
(* its Bucket helpers and its rendering to the Lua query text) and of the  *)
(* BucketResponse wrapper of the API's answer.                             *)
(*                                                                         *)
(* JavaScript strings are modelled as sequences of chunks.  A chunk is a   *)
(* TLA+ string; every character the code treats specially (the dot of a    *)
(* field reference, the quote, the backslash, the characters               *)
(* encodeURIComponent escapes) is a chunk of its own, so that split,       *)
(* includes, escaping and encoding are computed chunk by chunk.  Text(s)   *)
(* flattens a chunk sequence: two JavaScript strings are equal exactly     *)
(* when their Text is.                                                     *)
(*                                                                         *)
(* JavaScript values are tagged records: Str, Num, Bool, JsNull,           *)
(* JsUndefined, Arr (an array) and Obj (an object, a function from its     *)
(* keys).  Arrays and maps owned by a builder live in a heap and the       *)
(* builder holds references to them, as in the source.                     *)
(***************************************************************************)
EXTENDS Integers, Sequences, FiniteSets, TLC

VARIABLES
    builders,   \* name of a program variable |-> the builder object it holds
    heap,       \* reference |-> the array or map stored there
    console,    \* the warnings the last call wrote with console.warn
    out,        \* what the last call returned (or that it threw)
    selectLog,  \* history: per builder, every argument of every select call
    raw         \* the payload the BucketResponse wraps; undefined before any

vars == <<builders, heap, console, out, selectLog, raw>>

-----------------------------------------------------------------------------
(* Bounds of the model.                                                    *)

\* Spec: the longest lists a builder grows
MaxJoins == 2
MaxSelections == 1
MaxWhere == 2
MaxOrder == 1

\* SpecSelect: the most join calls and the most selected fields
MaxJoinCalls == 2
MaxSelectFields == 2

\* SpecWhere: the most entries of the condition list
MaxWhereEntries == 2

\* SpecClone: the most list entries one builder holds
MaxCloneEntries == 2

\* SpecFilters: the most entries of the condition list
MaxFilterEntries == 3

\* SpecAlias: the most list entries the builder holds
MaxAliasEntries == 2

\* SpecOrder: the most selections and orderings together
MaxOrderEntries == 3

\* SpecWhen: the most list entries one builder holds
MaxWhenEntries == 2

\* SpecCopy: the most entries of the condition list
MaxCopyEntries == 2

-----------------------------------------------------------------------------
(* Strings as chunk sequences.                                             *)

RECURSIVE Text(_)
Text(s) == IF s = <<>> THEN "" ELSE Head(s) \o Text(Tail(s))

RECURSIVE Flatten(_)
Flatten(ss) == IF ss = <<>> THEN <<>> ELSE Head(ss) \o Flatten(Tail(ss))

\* Array.prototype.join on an array of strings
RECURSIVE JoinStrings(_, _)
JoinStrings(ss, sep) ==
    IF ss = <<>> THEN <<>>
    ELSE IF Len(ss) = 1 THEN ss[1]
    ELSE ss[1] \o sep \o JoinStrings(Tail(ss), sep)

\* String.prototype.includes('.')
IncludesDot(s) == \E i \in 1..Len(s) : s[i] = "."

\* String.prototype.split('.')
RECURSIVE SplitDot(_)
SplitDot(s) ==
    IF ~IncludesDot(s) THEN <<s>>
    ELSE LET i == CHOOSE k \in 1..Len(s) :
                      s[k] = "." /\ \A j \in 1..(k - 1) : s[j] # "."
         IN  <<SubSeq(s, 1, i - 1)>> \o SplitDot(SubSeq(s, i + 1, Len(s)))

Digit(d) == <<"0", "1", "2", "3", "4", "5", "6", "7", "8", "9">>[d + 1]

\* Number-to-string conversion of an integer (template literal, String(n))
RECURSIVE NatToString(_)
NatToString(n) ==
    IF n < 10 THEN Digit(n) ELSE NatToString(n \div 10) \o Digit(n % 10)

NumberToString(n) == IF n < 0 THEN <<"-" \o NatToString(-n)>> ELSE <<NatToString(n)>>

-----------------------------------------------------------------------------
(* JavaScript values.                                                      *)

Str(s) == [t |-> "str", s |-> s]
Num(n) == [t |-> "num", n |-> n]
Bool(b) == [t |-> "bool", b |-> b]
JsNull == [t |-> "null"]
JsUndefined == [t |-> "undef"]
Arr(a) == [t |-> "arr", a |-> a]
Obj(p) == [t |-> "obj", p |-> p]

\* '<key>' in v, for a v that is not null or undefined
HasKey(v, key) == v.t = "obj" /\ key \in DOMAIN v.p

\* v.<key>: undefined when the property is absent
Prop(v, key) == IF HasKey(v, key) THEN v.p[key] ELSE JsUndefined

\* v.<key> === '<tag>'
PropIs(v, key, tag) == HasKey(v, key) /\ v.p[key] = Str(<<tag>>)

Truthy(v) ==
    CASE v.t = "undef" -> FALSE
      [] v.t = "null" -> FALSE
      [] v.t = "bool" -> v.b
      [] v.t = "num" -> v.n # 0
      [] v.t = "str" -> Text(v.s) # ""
      [] OTHER -> TRUE

-----------------------------------------------------------------------------
(* Conversions of JavaScript values to text.                               *)

\* Array.prototype.join on an array of values: null and undefined elements
\* contribute the empty string, a string contributes itself
RECURSIVE ArrayJoin(_, _)
ArrayJoin(vs, sep) ==
    LET item(v) == IF v.t \in {"undef", "null"} THEN <<>> ELSE v.s
    IN  IF vs = <<>> THEN <<>>
        ELSE IF Len(vs) = 1 THEN item(vs[1])
        ELSE item(vs[1]) \o sep \o ArrayJoin(Tail(vs), sep)

\* The conversion a template literal `${v}` applies
RECURSIVE TemplateString(_)
TemplateString(v) ==
    CASE v.t = "str" -> v.s
      [] v.t = "num" -> NumberToString(v.n)
      [] v.t = "bool" -> IF v.b THEN <<"true">> ELSE <<"false">>
      [] v.t = "null" -> <<"null">>
      [] v.t = "undef" -> <<"undefined">>
      [] v.t = "arr" ->
            ArrayJoin([i \in 1..Len(v.a) |->
                          IF v.a[i].t \in {"undef", "null"} THEN v.a[i]
                          ELSE Str(TemplateString(v.a[i]))], <<",">>)
      [] OTHER -> <<"[", "object", " ", "Object", "]">>

\* The escaping JSON.stringify applies inside a string literal
RECURSIVE JsonEscape(_)
JsonEscape(s) ==
    IF s = <<>> THEN <<>>
    ELSE (IF Head(s) \in {"\"", "\\"} THEN <<"\\", Head(s)>> ELSE <<Head(s)>>)
         \o JsonEscape(Tail(s))

\* The order in which JSON.stringify lists the keys of the objects of the
\* model (their insertion order)
KeyOrder == <<"_type", "conditions", "condition", "_group", "custom">>

\* The text JSON.stringify(v) produces for a v other than undefined
RECURSIVE JsonText(_)
JsonText(v) ==
    CASE v.t = "str" -> <<"\"">> \o JsonEscape(v.s) \o <<"\"">>
      [] v.t = "num" -> NumberToString(v.n)
      [] v.t = "bool" -> IF v.b THEN <<"true">> ELSE <<"false">>
      [] v.t = "null" -> <<"null">>
      [] v.t = "undef" -> <<"null">>
      [] v.t = "arr" ->
            <<"[">> \o JoinStrings([i \in 1..Len(v.a) |-> JsonText(v.a[i])], <<",">>)
            \o <<"]">>
      [] OTHER ->
            LET keys == SelectSeq(KeyOrder,
                            LAMBDA k : k \in DOMAIN v.p /\ v.p[k].t # "undef")
            IN  <<"{">>
                \o JoinStrings([i \in 1..Len(keys) |->
                       <<"\"", keys[i], "\"", ":">> \o JsonText(v.p[keys[i]])], <<",">>)
                \o <<"}">>

\* JSON.stringify(v): a string, or undefined for undefined
JsonStringify(v) == IF v.t = "undef" THEN JsUndefined ELSE Str(JsonText(v))

\* JSON.parse(JSON.stringify(v)) for a v other than undefined: undefined
\* becomes null inside an array and an undefined property is dropped
RECURSIVE JsonRoundTrip(_)
JsonRoundTrip(v) ==
    CASE v.t = "arr" ->
            Arr([i \in 1..Len(v.a) |->
                    IF v.a[i].t = "undef" THEN JsNull ELSE JsonRoundTrip(v.a[i])])
      [] v.t = "obj" ->
            Obj([k \in {j \in DOMAIN v.p : v.p[j].t # "undef"} |-> JsonRoundTrip(v.p[k])])
      [] OTHER -> v

\* encodeURIComponent, chunk by chunk: a chunk is either free of escaped
\* characters or one escaped character
EncodeChunk(c) ==
    CASE c = " " -> "%20"
      [] c = "," -> "%2C"
      [] c = "{" -> "%7B"
      [] c = "}" -> "%7D"
      [] c = "[" -> "%5B"
      [] c = "]" -> "%5D"
      [] c = "\\" -> "%5C"
      [] c = "\"" -> "%22"
      [] c = ":" -> "%3A"
      [] c = "=" -> "%3D"
      [] c = ">" -> "%3E"
      [] c = "<" -> "%3C"
      [] OTHER -> c

encodeURIComponent(s) == [i \in 1..Len(s) |-> EncodeChunk(s[i])]

-----------------------------------------------------------------------------
(* types.ts: defaults and the Bucket helper object.                        *)

QUERY_DEFAULTS_LIMIT == 500
QUERY_DEFAULTS_MAX_LIMIT == 5000
QUERY_DEFAULTS_OFFSET == 0

BucketAnd(conditions) == Obj([_type |-> Str(<<"AND">>), conditions |-> Arr(conditions)])
BucketOr(conditions) == Obj([_type |-> Str(<<"OR">>), conditions |-> Arr(conditions)])
BucketNot(condition) == Obj([_type |-> Str(<<"NOT">>), condition |-> condition])
BucketNull == Obj([_type |-> Str(<<"NULL">>)])

\* generated/definitions.js: the runtime registry of field names per bucket
BUCKET_FIELDS ==
    [exchange |-> <<"id", "name", "value">>,
     storeline |-> <<"sold_by", "name">>]

\* BUCKET_FIELDS[bucket] || []
RegisteredFields(bucket) ==
    IF bucket \in DOMAIN BUCKET_FIELDS THEN BUCKET_FIELDS[bucket] ELSE <<>>

BUCKET_API_BASE ==
    <<"https", ":", "/", "/", "oldschool.runescape.wiki", "/", "api.php">>

-----------------------------------------------------------------------------
(* The builder object and its heap.                                        *)

Names == {"b", "c"}

\* The reference of the array or map that builder object `owner` allocated
\* for its field `fld`
Ref(owner, fld) == <<owner, fld>>

\* The state a call works on: the builders, the heap and the warnings
\* written so far by the call
World == [builders |-> builders, heap |-> heap, console |-> <<>>]

\* The same of the state a step leaves
WorldAfter == [builders |-> builders', heap |-> heap', console |-> <<>>]

Quote(s) == <<"'">> \o s \o <<"'">>

\* Field initialisers and constructor(bucket)
constructor(w, x, bucket) ==
    [w EXCEPT
        !.builders = [n \in DOMAIN w.builders \cup {x} |->
            IF n = x
            THEN [mainBucket |-> bucket,
                  joins |-> Ref(x, "joins"),
                  selections |-> Ref(x, "selections"),
                  whereClauses |-> Ref(x, "whereClauses"),
                  limitValue |-> QUERY_DEFAULTS_LIMIT,
                  offsetValue |-> QUERY_DEFAULTS_OFFSET,
                  orderClauses |-> Ref(x, "orderClauses"),
                  aliasMap |-> Ref(x, "aliasMap")]
            ELSE w.builders[n]],
        !.heap = [r \in DOMAIN w.heap \cup
                        {Ref(x, f) : f \in {"joins", "selections", "whereClauses",
                                            "orderClauses", "aliasMap"}} |->
            IF r[1] = x
            THEN (IF r[2] = "aliasMap" THEN (bucket :> bucket) ELSE <<>>)
            ELSE w.heap[r]]]

\* Reading the fields of builder x in world w
joinsOf(w, x) == w.heap[w.builders[x].joins]
selectionsOf(w, x) == w.heap[w.builders[x].selections]
whereClausesOf(w, x) == w.heap[w.builders[x].whereClauses]
orderClausesOf(w, x) == w.heap[w.builders[x].orderClauses]
aliasMapOf(w, x) == w.heap[w.builders[x].aliasMap]

\* array.push(...items) on the array at reference r
Push(w, r, items) == [w EXCEPT !.heap[r] = @ \o items]

\* map[key] = value on the object at reference r
SetKey(w, r, key, value) ==
    [w EXCEPT !.heap[r] = [k \in DOMAIN @ \cup {key} |-> IF k = key THEN value ELSE @[k]]]

\* console.warn(msg)
Warn(w, msg) == [w EXCEPT !.console = Append(@, msg)]

\* Members a plain object inherits from Object.prototype
ObjectPrototypeKeys == {"constructor", "toString", "valueOf", "hasOwnProperty"}

\* this.aliasMap[key]: the mapped bucket as a string value, an inherited
\* member, or undefined
AliasLookup(map, key) ==
    IF key \in DOMAIN map THEN Str(<<map[key]>>)
    ELSE IF key \in ObjectPrototypeKeys THEN [t |-> "fn", name |-> key]
    ELSE JsUndefined

\* `${mapped}` for a looked-up alias
MappedText(mapped) ==
    IF mapped.t = "fn"
    THEN <<"function", " ", IF mapped.name = "constructor" THEN "Object" ELSE mapped.name,
           "()", " ", "{", " ", "[", "native", " ", "code", "]", " ", "}">>
    ELSE mapped.s

-----------------------------------------------------------------------------
(* Configuration methods, as functions from the world before the call to   *)
(* the world after it.                                                     *)

\* A select that replaces the earlier selections instead of appending
\* select that resolves the qualifier of a dotted field against the aliases
\* declared so far, and stores the resolved reference
selectResolved(w, x, fields) ==
    Push(w, w.builders[x].selections,
         [i \in 1..Len(fields) |->
             IF IncludesDot(fields[i])
             THEN LET parts == SplitDot(fields[i])
                      mapped == AliasLookup(aliasMapOf(w, x), Text(parts[1]))
                  IN  IF Truthy(mapped)
                      THEN MappedText(mapped) \o <<".">> \o parts[2]
                      ELSE fields[i]
             ELSE fields[i]])

selectReplacing(w, x, fields) == [w EXCEPT !.heap[w.builders[x].selections] = fields]

select(w, x, fields) == Push(w, w.builders[x].selections, fields)

\* join(targetBucket, aliasOrSourceField, sourceOrTargetField, maybeTargetField?)
join(w, x, targetBucket, aliasOrSourceField, sourceOrTargetField, maybeTargetField) ==
    LET four == Truthy(maybeTargetField)
        alias == IF four THEN Str(aliasOrSourceField) ELSE JsUndefined
        sourceField == IF four THEN sourceOrTargetField ELSE aliasOrSourceField
        targetField == IF four THEN maybeTargetField.s ELSE sourceOrTargetField
        joinEntry == [target |-> targetBucket,
                      alias |-> IF Truthy(alias) THEN alias ELSE JsUndefined,
                      onSource |-> sourceField,
                      onTarget |-> targetField]
        w1 == Push(w, w.builders[x].joins, <<joinEntry>>)
    IN  IF Truthy(alias)
        THEN SetKey(w1, w.builders[x].aliasMap, Text(alias.s), targetBucket)
        ELSE SetKey(w1, w.builders[x].aliasMap, targetBucket, targetBucket)

\* where(...args)
where(w, x, args) ==
    LET first == IF Len(args) > 0 THEN args[1] ELSE JsUndefined
        entry ==
            IF first.t = "str"
            THEN IF Len(args) = 2 THEN Arr(<<args[1], args[2]>>)
                 ELSE IF Len(args) = 3 THEN Arr(<<args[1], args[2], args[3]>>)
                 ELSE Obj([_group |-> Arr(args)])
            ELSE Obj([_group |-> Arr(args)])
    IN  Push(w, w.builders[x].whereClauses, <<entry>>)

whereNot(w, x, field, value) == where(w, x, <<field, Str(<<"!", "=">>), value>>)

whereNull(w, x, field) == where(w, x, <<field, BucketNull>>)

whereNotNull(w, x, field) == where(w, x, <<field, Str(<<"!", "=">>), BucketNull>>)

\* whereBetween storing the upper bound first
whereBetweenUpperFirst(w, x, field, range) ==
    where(where(w, x, <<field, Str(<<"<", "=">>), range[2]>>),
          x, <<field, Str(<<">", "=">>), range[1]>>)

whereBetween(w, x, field, range) ==
    where(where(w, x, <<field, Str(<<">", "=">>), range[1]>>),
          x, <<field, Str(<<"<", "=">>), range[2]>>)

\* whereIn building its conditions from the distinct values only
whereInDistinct(w, x, field, values) ==
    LET Fresh(i) == \A k \in 1..(i - 1) : values[k] # values[i]
        kept == SelectSeq([i \in 1..Len(values) |-> i], Fresh)
        conditions == [i \in 1..Len(kept) |-> Arr(<<field, values[kept[i]]>>)]
    IN  Push(w, w.builders[x].whereClauses, <<BucketOr(conditions)>>)

whereIn(w, x, field, values) ==
    LET conditions == [i \in 1..Len(values) |-> Arr(<<field, values[i]>>)]
    IN  Push(w, w.builders[x].whereClauses, <<BucketOr(conditions)>>)

\* A limit that resets non-positive values and stores every other n as given
limitUnclamped(w, x, n) ==
    IF n = 0 \/ n <= 0
    THEN [w EXCEPT !.builders[x].limitValue = QUERY_DEFAULTS_LIMIT]
    ELSE [w EXCEPT !.builders[x].limitValue = n]

\* A limit that clamps above 5000 and stores every other n as given
limitKeepsNonPositive(w, x, n) ==
    IF n > QUERY_DEFAULTS_MAX_LIMIT
    THEN [w EXCEPT !.builders[x].limitValue = QUERY_DEFAULTS_MAX_LIMIT]
    ELSE [w EXCEPT !.builders[x].limitValue = n]

limit(w, x, n) ==
    IF n = 0 \/ n <= 0
    THEN [w EXCEPT !.builders[x].limitValue = QUERY_DEFAULTS_LIMIT]
    ELSE IF n > QUERY_DEFAULTS_MAX_LIMIT
    THEN [Warn(w, <<"Limit", " ">> \o NumberToString(n)
                    \o <<" ", "exceeds", " ", "max", " ">>
                    \o NumberToString(QUERY_DEFAULTS_MAX_LIMIT)
                    \o <<",", " ", "clamping.">>)
            EXCEPT !.builders[x].limitValue = QUERY_DEFAULTS_MAX_LIMIT]
    ELSE [w EXCEPT !.builders[x].limitValue = n]

offset(w, x, n) == [w EXCEPT !.builders[x].offsetValue = n]

\* A paginate that takes every page as given
paginateAnyPage(w, x, page, perPage) ==
    offset(limit(w, x, perPage), x, (page - 1) * perPage)

paginate(w, x, page, perPage) ==
    LET p == IF page < 1 THEN 1 ELSE page
    IN  offset(limit(w, x, perPage), x, (p - 1) * perPage)

\* A clone that hands its copy the condition array of the original
cloneSharingConditions(w, x, y) ==
    LET w1 == constructor(w, y, w.builders[x].mainBucket)
        src == w.builders[x]
        dst == w1.builders[y]
    IN  [w1 EXCEPT
            !.heap[dst.aliasMap] = w.heap[src.aliasMap],
            !.heap[dst.joins] = w.heap[src.joins],
            !.heap[dst.selections] = w.heap[src.selections],
            !.builders[y].whereClauses = src.whereClauses,
            !.builders[y].limitValue = src.limitValue,
            !.builders[y].offsetValue = src.offsetValue,
            !.heap[dst.orderClauses] = w.heap[src.orderClauses]]

\* clone(), its result bound to the program variable y
clone(w, x, y) ==
    LET w1 == constructor(w, y, w.builders[x].mainBucket)
        src == w.builders[x]
        dst == w1.builders[y]
    IN  [w1 EXCEPT
            !.heap[dst.aliasMap] = w.heap[src.aliasMap],
            !.heap[dst.joins] = w.heap[src.joins],
            !.heap[dst.selections] = w.heap[src.selections],
            !.heap[dst.whereClauses] = JsonRoundTrip(Arr(w.heap[src.whereClauses])).a,
            !.builders[y].limitValue = src.limitValue,
            !.builders[y].offsetValue = src.offsetValue,
            !.heap[dst.orderClauses] = w.heap[src.orderClauses]]

\* selections.includes(field), '*' or a covering 'q.*' among the selections
orderByCovered(selections, field) ==
    LET directMatch == \E i \in 1..Len(selections) : Text(selections[i]) = Text(field)
        wildcardMatch ==
            \E i \in 1..Len(selections) :
                \/ selections[i] = <<"*">>
                \/ /\ Len(selections[i]) >= 2
                   /\ SubSeq(selections[i], Len(selections[i]) - 1, Len(selections[i]))
                        = <<".", "*">>
                   /\ LET alias == SplitDot(selections[i])[1] \o <<".">>
                      IN  /\ Len(field) >= Len(alias)
                          /\ SubSeq(field, 1, Len(alias)) = alias
    IN  directMatch \/ wildcardMatch

orderBy(w, x, field, direction) ==
    LET w1 == IF Len(selectionsOf(w, x)) > 0 /\ ~orderByCovered(selectionsOf(w, x), field)
              THEN Warn(w, <<"Warning", ":", " ", "orderBy", " ", "field", " ">>
                            \o Quote(field)
                            \o <<" ", "is", " ", "not", " ", "explicitly", " ",
                                 "selected.", " ", "This", " ", "may", " ", "fail", " ",
                                 "on", " ", "the", " ", "Wiki", " ", "API.">>)
              ELSE w
    IN  Push(w1, w.builders[x].orderClauses, <<[field |-> field, direction |-> direction]>>)

\* first() that also rewinds to the start of the results
firstRewinding(w, x) == offset(limit(w, x, 1), x, 0)

first(w, x) == limit(w, x, 1)

\* callback(q): the callbacks handed to when, each a chain of calls on the
\* builder q it receives
callback(w, q, body) ==
    CASE body = "where" -> where(w, q, <<Str(<<"id">>), Num(1)>>)
      [] body = "limit" -> limit(w, q, 10)
      [] body = "orderBy" -> orderBy(w, q, <<"id">>, <<"desc">>)
      [] body = "whereOffset" -> offset(where(w, q, <<Str(<<"id">>), Num(1)>>), q, 5)
      [] OTHER -> w

\* A when that invokes its callback whatever the condition
whenAlways(w, x, condition, body) == callback(w, x, body)

when(w, x, condition, body) ==
    IF condition THEN callback(w, x, body) ELSE w

-----------------------------------------------------------------------------
(* Rendering.                                                              *)

\* resolveAlias(field)
resolveAlias(w, x, field) ==
    IF ~IncludesDot(field) THEN field
    ELSE LET parts == SplitDot(field)
             alias == parts[1]
             f == parts[2]
             mapped == AliasLookup(aliasMapOf(w, x), Text(alias))
         IN  IF Len(parts) < 2 THEN field
             ELSE IF Truthy(mapped) THEN MappedText(mapped) \o <<".">> \o f
             ELSE field

\* Array.from(new Set(items)): the distinct items in first-insertion order
RECURSIVE uniqueOf(_, _)
uniqueOf(items, seen) ==
    IF items = <<>> THEN seen
    ELSE IF \E i \in 1..Len(seen) : Text(seen[i]) = Text(Head(items))
    THEN uniqueOf(Tail(items), seen)
    ELSE uniqueOf(Tail(items), Append(seen, Head(items)))

\* An expandField whose '*' stands for the main bucket's fields only
expandFieldMainOnly(w, x, field) ==
    LET mainFields == RegisteredFields(w.builders[x].mainBucket)
    IN  IF field = <<"*">> /\ Len(mainFields) > 0
        THEN [i \in 1..Len(mainFields) |-> Quote(<<mainFields[i]>>)]
        ELSE <<Quote(field)>>

\* expandField(field): the quoted selectors a selector stands for
expandField(w, x, field) ==
    LET mainBucket == w.builders[x].mainBucket
        joins == joinsOf(w, x)
    IN  IF field = <<"*">>
        THEN LET mainFields == RegisteredFields(mainBucket)
                 allFields ==
                    [i \in 1..Len(mainFields) |-> Quote(<<mainFields[i]>>)]
                    \o Flatten([j \in 1..Len(joins) |->
                          LET targetFields == RegisteredFields(joins[j].target)
                          IN  [i \in 1..Len(targetFields) |->
                                  Quote(<<joins[j].target, ".", targetFields[i]>>)]])
             IN  IF Len(allFields) = 0 THEN <<Quote(<<"*">>)>> ELSE allFields
        ELSE IF IncludesDot(field)
        THEN LET parts == SplitDot(field)
                 alias == parts[1]
                 subField == parts[2]
                 realBucket == AliasLookup(aliasMapOf(w, x), Text(alias))
             IN  IF ~Truthy(realBucket) THEN <<Quote(field)>>
                 ELSE IF subField = <<"*">>
                 THEN LET fields == IF realBucket.t = "str"
                                    THEN RegisteredFields(Text(realBucket.s))
                                    ELSE <<>>
                      IN  [i \in 1..Len(fields) |->
                              Quote(MappedText(realBucket) \o <<".", fields[i]>>)]
                 ELSE <<Quote(MappedText(realBucket) \o <<".">> \o subField)>>
        ELSE <<Quote(field)>>

\* Whether formatCondition(cond) raises a TypeError: the `in` operator applied
\* to null, or .map called on a `conditions` that is no array
RECURSIVE formatConditionThrows(_)
formatConditionThrows(cond) ==
    CASE cond.t = "null" -> TRUE
      [] cond.t = "obj" /\ (PropIs(cond, "_type", "AND") \/ PropIs(cond, "_type", "OR")) ->
            LET cs == Prop(cond, "conditions")
            IN  /\ Truthy(cs)
                /\ \/ cs.t # "arr"
                   \/ \E i \in 1..Len(cs.a) : formatConditionThrows(cs.a[i])
      [] cond.t = "obj" /\ PropIs(cond, "_type", "NOT") ->
            formatConditionThrows(Prop(cond, "condition"))
      [] cond.t = "arr" /\ Len(cond.a) = 3 /\ HasKey(cond.a[3], "_type") ->
            formatConditionThrows(cond.a[3])
      [] OTHER -> FALSE

\* formatCondition(cond), where it returns: a string, or undefined
RECURSIVE formatCondition(_, _, _)
formatCondition(w, x, cond) ==
    LET simple ==
            LET head == IF Len(cond.a) > 0 THEN cond.a[1] ELSE JsUndefined
                field == IF head.t = "str" THEN resolveAlias(w, x, head.s)
                         ELSE TemplateString(head)
                scalar(valRaw) == IF valRaw.t = "str" THEN Quote(valRaw.s)
                                  ELSE TemplateString(valRaw)
            IN  IF Len(cond.a) = 2
                THEN IF PropIs(cond.a[2], "_type", "NULL")
                     THEN Str(<<"{", " ">> \o Quote(field)
                              \o <<",", " ", "bucket.Null()", " ", "}">>)
                     ELSE Str(<<"{", " ">> \o Quote(field) \o <<",", " ">>
                              \o scalar(cond.a[2]) \o <<" ", "}">>)
                ELSE IF HasKey(cond.a[3], "_type")
                     THEN Str(<<"{", " ">> \o Quote(field) \o <<",", " ">>
                              \o Quote(TemplateString(cond.a[2])) \o <<",", " ">>
                              \o TemplateString(formatCondition(w, x, cond.a[3]))
                              \o <<" ", "}">>)
                     ELSE Str(<<"{", " ">> \o Quote(field) \o <<",", " ">>
                              \o Quote(TemplateString(cond.a[2])) \o <<",", " ">>
                              \o scalar(cond.a[3]) \o <<" ", "}">>)
    IN  CASE cond.t = "obj" /\ (PropIs(cond, "_type", "AND") \/ PropIs(cond, "_type", "OR")) ->
                LET cs == Prop(cond, "conditions")
                    list == IF Truthy(cs) /\ cs.t = "arr" THEN cs.a ELSE <<>>
                    args == ArrayJoin([i \in 1..Len(list) |-> formatCondition(w, x, list[i])],
                                      <<",", " ">>)
                IN  Str(<<"bucket.", IF PropIs(cond, "_type", "AND") THEN "And" ELSE "Or", "(">>
                        \o args \o <<")">>)
          [] cond.t = "obj" /\ PropIs(cond, "_type", "NOT") ->
                Str(<<"bucket.Not(">>
                    \o TemplateString(formatCondition(w, x, Prop(cond, "condition")))
                    \o <<")">>)
          [] cond.t = "obj" /\ PropIs(cond, "_type", "NULL") -> Str(<<"bucket.Null()">>)
          [] cond.t = "arr" /\ Len(cond.a) \in {2, 3} -> simple
          [] OTHER -> JsonStringify(cond)

\* Where clauses with one string per condition, those of a group each on
\* its own
whereTextsPerCondition(w, x) ==
    LET clauses == whereClausesOf(w, x)
    IN  Flatten([i \in 1..Len(clauses) |->
            IF HasKey(clauses[i], "_group")
            THEN LET g == clauses[i].p["_group"].a
                 IN  [k \in 1..Len(g) |-> TemplateString(formatCondition(w, x, g[k]))]
            ELSE <<TemplateString(formatCondition(w, x, clauses[i]))>>])

\* The where clauses of printSQL: one string per entry of whereClauses
whereTexts(w, x) ==
    LET clauses == whereClausesOf(w, x)
    IN  [i \in 1..Len(clauses) |->
            IF HasKey(clauses[i], "_group")
            THEN LET g == clauses[i].p["_group"].a
                 IN  ArrayJoin([k \in 1..Len(g) |-> formatCondition(w, x, g[k])],
                               <<",", " ">>)
            ELSE TemplateString(formatCondition(w, x, clauses[i]))]

\* The selectors of the select clause of printSQL
finalSelectors(w, x) ==
    LET selections == selectionsOf(w, x)
    IN  Flatten([i \in 1..Len(selections) |-> expandField(w, x, selections[i])])

\* `${bucket}.${f}` unless f already holds a dot
qualified(bucketName, f) == IF ~IncludesDot(f) THEN <<bucketName, ".">> \o f ELSE f

\* The text printSQL appends for join entry j
joinText(w, x, j) ==
    <<".join(">> \o Quote(<<j.target>>) \o <<",", " ">>
    \o Quote(qualified(w.builders[x].mainBucket, resolveAlias(w, x, j.onSource)))
    \o <<",", " ">>
    \o Quote(qualified(j.target, resolveAlias(w, x, j.onTarget)))
    \o <<")">>

\* The text printSQL appends for ordering entry o
orderText(w, x, o) ==
    <<".orderBy(">> \o Quote(resolveAlias(w, x, o.field)) \o <<",", " ">>
    \o Quote(o.direction) \o <<")">>

\* The select clause, if any, for the expanded selectors
selectClause(selections, selectors) ==
    IF Len(selections) > 0 /\ Len(selectors) > 0
    THEN <<[kind |-> "select",
            text |-> <<".select(">> \o JoinStrings(uniqueOf(selectors, <<>>), <<",", " ">>)
                     \o <<")">>]>>
    ELSE <<>>

\* One clause per where text
whereClause(texts) ==
    [i \in 1..Len(texts) |-> [kind |-> "where", text |-> <<".where(">> \o texts[i] \o <<")">>]]

\* Limit and offset clauses that are appended whatever their values
pageClausesAlways(this) ==
    <<[kind |-> "limit",
       text |-> <<".limit(">> \o NumberToString(this.limitValue) \o <<")">>],
      [kind |-> "offset",
       text |-> <<".offset(">> \o NumberToString(this.offsetValue) \o <<")">>]>>

\* The limit and offset clauses, each only when it differs from the default
pageClauses(this) ==
    (IF this.limitValue # QUERY_DEFAULTS_LIMIT
     THEN <<[kind |-> "limit",
             text |-> <<".limit(">> \o NumberToString(this.limitValue) \o <<")">>]>>
     ELSE <<>>)
    \o (IF this.offsetValue # QUERY_DEFAULTS_OFFSET
        THEN <<[kind |-> "offset",
                text |-> <<".offset(">> \o NumberToString(this.offsetValue) \o <<")">>]>>
        ELSE <<>>)

\* A printSQL that appends the where clauses ahead of the select clause
printSQLClausesWhereFirst(w, x) ==
    <<[kind |-> "bucket",
       text |-> <<"bucket(">> \o Quote(<<w.builders[x].mainBucket>>) \o <<")">>]>>
    \o [i \in 1..Len(joinsOf(w, x)) |->
            [kind |-> "join", text |-> joinText(w, x, joinsOf(w, x)[i])]]
    \o whereClause(whereTexts(w, x))
    \o selectClause(selectionsOf(w, x), finalSelectors(w, x))
    \o [i \in 1..Len(orderClausesOf(w, x)) |->
            [kind |-> "orderBy", text |-> orderText(w, x, orderClausesOf(w, x)[i])]]
    \o pageClauses(w.builders[x])
    \o <<[kind |-> "run", text |-> <<".run()">>]>>

\* printSQL(), as the clauses it appends to sql one after the other
printSQLClauses(w, x) ==
    <<[kind |-> "bucket",
       text |-> <<"bucket(">> \o Quote(<<w.builders[x].mainBucket>>) \o <<")">>]>>
    \o [i \in 1..Len(joinsOf(w, x)) |->
            [kind |-> "join", text |-> joinText(w, x, joinsOf(w, x)[i])]]
    \o selectClause(selectionsOf(w, x), finalSelectors(w, x))
    \o whereClause(whereTexts(w, x))
    \o [i \in 1..Len(orderClausesOf(w, x)) |->
            [kind |-> "orderBy", text |-> orderText(w, x, orderClausesOf(w, x)[i])]]
    \o pageClauses(w.builders[x])
    \o <<[kind |-> "run", text |-> <<".run()">>]>>

\* Whether printSQL() raises a TypeError instead of returning
printSQLThrows(w, x) ==
    LET clauses == whereClausesOf(w, x)
    IN  \E i \in 1..Len(clauses) :
            IF HasKey(clauses[i], "_group")
            THEN \E k \in 1..Len(clauses[i].p["_group"].a) :
                    formatConditionThrows(clauses[i].p["_group"].a[k])
            ELSE formatConditionThrows(clauses[i])

\* The concatenation of the clauses' texts
textOf(cs) == Flatten([i \in 1..Len(cs) |-> cs[i].text])

\* The string printSQL() builds
printSQLText(w, x) == textOf(printSQLClauses(w, x))

\* The outcome of a call that raised
Thrown == [t |-> "throw"]

\* What a rendering call hands back: the world it leaves and its result
Outcome(w, threw, text) ==
    [world |-> w, result |-> IF threw THEN Thrown ELSE Str(text)]

\* A printSQL that resets the offset once it has rendered it
printSQLConsuming(w, x) ==
    Outcome([w EXCEPT !.builders[x].offsetValue = QUERY_DEFAULTS_OFFSET],
            printSQLThrows(w, x), printSQLText(w, x))

\* printSQL(): reads the builder, assigns nothing
printSQL(w, x) == Outcome(w, printSQLThrows(w, x), printSQLText(w, x))

\* shouldEncode ? encodeURIComponent(sql) : sql
encodeIf(sql, shouldEncode) ==
    [world |-> sql.world,
     result |-> IF sql.result = Thrown THEN Thrown
                ELSE IF shouldEncode THEN Str(encodeURIComponent(sql.result.s))
                ELSE sql.result]

\* run(options): options.encodeURI ?? true
run(w, x, shouldEncode) == encodeIf(printSQL(w, x), shouldEncode)

\* `${BUCKET_API_BASE}?action=bucket&format=json&query=${encodedQuery}`
urlOf(encodedQuery) ==
    [world |-> encodedQuery.world,
     result |-> IF encodedQuery.result = Thrown THEN Thrown
                ELSE Str(BUCKET_API_BASE
                         \o <<"?action", "=", "bucket", "&", "format", "=", "json",
                              "&", "query", "=">>
                         \o encodedQuery.result.s)]

toUrl(w, x) == urlOf(run(w, x, TRUE))

\* bucket(name): the factory
bucket(w, x, name) == constructor(w, x, name)

-----------------------------------------------------------------------------
(* BucketResponse: the accessors, as functions of the wrapped payload.     *)

\* throw new Error(message)
ThrownError(message) == [t |-> "throw", message |-> message]

\* get query()
query(payload) == Prop(payload, "bucketQuery")

\* get results()
results(payload) ==
    IF Truthy(Prop(payload, "error"))
    THEN ThrownError(<<"Bucket", " ", "API", " ", "Error", ":", " ">>
                     \o TemplateString(Prop(payload, "error")))
    ELSE IF Prop(payload, "bucket").t \in {"undef", "null"} THEN Arr(<<>>)
    ELSE Prop(payload, "bucket")

\* get error()
error(payload) == Prop(payload, "error")

\* first(): this.results[0]
responseFirst(payload) ==
    LET rows == results(payload)
    IN  IF rows.t = "throw" THEN rows
        ELSE IF Len(rows.a) = 0 THEN JsUndefined
        ELSE rows.a[1]

-----------------------------------------------------------------------------
(* Actions: one call of a method on the builder held by variable x.        *)

\* A configuration call returned `this`
Returned(w, x) ==
    /\ builders' = w.builders
    /\ heap' = w.heap
    /\ console' = w.console
    /\ out' = [op |-> "config", who |-> x, result |-> [t |-> "builder", name |-> x]]
    /\ UNCHANGED raw

\* A rendering call returned r.result
Rendered(r, x, op) ==
    /\ builders' = r.world.builders
    /\ heap' = r.world.heap
    /\ console' = r.world.console
    /\ out' = [op |-> op, who |-> x, result |-> r.result]
    /\ UNCHANGED <<selectLog, raw>>

Select(x, fields) ==
    /\ x \in DOMAIN builders
    /\ Returned(select(World, x, fields), x)
    /\ selectLog' = [selectLog EXCEPT ![x] = @ \o fields]

Join(x, targetBucket, a2, a3, a4) ==
    /\ x \in DOMAIN builders
    /\ Returned(join(World, x, targetBucket, a2, a3, a4), x)
    /\ UNCHANGED selectLog

Where(x, args) ==
    /\ x \in DOMAIN builders
    /\ Returned(where(World, x, args), x)
    /\ UNCHANGED selectLog

WhereNot(x, field, value) ==
    /\ x \in DOMAIN builders
    /\ Returned(whereNot(World, x, field, value), x)
    /\ UNCHANGED selectLog

WhereNull(x, field) ==
    /\ x \in DOMAIN builders
    /\ Returned(whereNull(World, x, field), x)
    /\ UNCHANGED selectLog

WhereNotNull(x, field) ==
    /\ x \in DOMAIN builders
    /\ Returned(whereNotNull(World, x, field), x)
    /\ UNCHANGED selectLog

WhereBetween(x, field, range) ==
    /\ x \in DOMAIN builders
    /\ Returned(whereBetween(World, x, field, range), x)
    /\ UNCHANGED selectLog

WhereIn(x, field, values) ==
    /\ x \in DOMAIN builders
    /\ Returned(whereIn(World, x, field, values), x)
    /\ UNCHANGED selectLog

Limit(x, n) ==
    /\ x \in DOMAIN builders
    /\ Returned(limit(World, x, n), x)
    /\ UNCHANGED selectLog

Offset(x, n) ==
    /\ x \in DOMAIN builders
    /\ Returned(offset(World, x, n), x)
    /\ UNCHANGED selectLog

Paginate(x, page, perPage) ==
    /\ x \in DOMAIN builders
    /\ Returned(paginate(World, x, page, perPage), x)
    /\ UNCHANGED selectLog

First(x) ==
    /\ x \in DOMAIN builders
    /\ Returned(first(World, x), x)
    /\ UNCHANGED selectLog

OrderBy(x, field, direction) ==
    /\ x \in DOMAIN builders
    /\ Returned(orderBy(World, x, field, direction), x)
    /\ UNCHANGED selectLog

When(x, condition, body) ==
    /\ x \in DOMAIN builders
    /\ Returned(when(World, x, condition, body), x)
    /\ UNCHANGED selectLog

\* y = x.clone()
Clone(x, y) ==
    /\ x \in DOMAIN builders
    /\ x # y
    /\ LET w == clone(World, x, y)
       IN  /\ builders' = w.builders
           /\ heap' = w.heap
           /\ console' = w.console
           /\ out' = [op |-> "clone", who |-> x, result |-> [t |-> "builder", name |-> y]]
    /\ selectLog' = [n \in DOMAIN selectLog \cup {y} |->
                        IF n = y THEN selectLog[x] ELSE selectLog[n]]
    /\ UNCHANGED raw

PrintSQL(x) ==
    /\ x \in DOMAIN builders
    /\ Rendered(printSQL(World, x), x, "printSQL")

Run(x, shouldEncode) ==
    /\ x \in DOMAIN builders
    /\ Rendered(run(World, x, shouldEncode), x, IF shouldEncode THEN "run" ELSE "runRaw")

ToUrl(x) ==
    /\ x \in DOMAIN builders
    /\ Rendered(toUrl(World, x), x, "toUrl")

\* new BucketResponse(payload)
NewBucketResponse(payload) ==
    /\ raw' = payload
    /\ console' = <<>>
    /\ out' = [op |-> "new", who |-> "response", result |-> [t |-> "response"]]
    /\ UNCHANGED <<builders, heap, selectLog>>

\* An accessor of the response returned, or threw, value
Accessed(op, value) ==
    /\ raw # JsUndefined
    /\ console' = <<>>
    /\ out' = [op |-> op, who |-> "response", result |-> value]
    /\ UNCHANGED <<builders, heap, selectLog, raw>>

ResponseQuery == Accessed("query", query(raw))

ResponseResults == Accessed("results", results(raw))

ResponseError == Accessed("error", error(raw))

ResponseFirst == Accessed("first", responseFirst(raw))

\* const b = bucket(name)
InitWith(mainBuckets) ==
    \E name \in mainBuckets :
        LET w == bucket([builders |-> <<>>, heap |-> <<>>, console |-> <<>>], "b", name)
        IN  /\ builders = w.builders
            /\ heap = w.heap
            /\ console = <<>>
            /\ out = [op |-> "bucket", who |-> "b", result |-> [t |-> "builder", name |-> "b"]]
            /\ selectLog = [n \in {"b"} |-> <<>>]
            /\ raw = JsUndefined

-----------------------------------------------------------------------------
(* Spec: one builder, every method, a few arguments each.                  *)

MixedBuckets == {"exchange", "__fake_empty__"}
MixedSelectors == {<<"id">>, <<"src", ".", "name">>}
MixedWhereArgs == {<<Str(<<"src", ".", "name">>), Str(<<"=">>), Str(<<"test">>)>>}
MixedLimits == {-5, 0, 10, 500, 5000, 10000}
MixedOffsets == {0, 5}

Init == InitWith(MixedBuckets)

Next ==
    \/ \E f \in MixedSelectors :
          Len(selectionsOf(World, "b")) < MaxSelections /\ Select("b", <<f>>)
    \/ /\ Len(joinsOf(World, "b")) < MaxJoins
       /\ Join("b", "exchange", <<"src">>, <<"id">>, Str(<<"name">>))
    \/ \E args \in MixedWhereArgs :
          Len(whereClausesOf(World, "b")) < MaxWhere /\ Where("b", args)
    \/ /\ Len(orderClausesOf(World, "b")) < MaxOrder
       /\ OrderBy("b", <<"id">>, <<"asc">>)
    \/ \E n \in MixedLimits : Limit("b", n)
    \/ \E n \in MixedOffsets : Offset("b", n)
    \/ \E page \in {0, 3} : Paginate("b", page, 10)
    \/ First("b")
    \/ PrintSQL("b")
    \/ \E e \in BOOLEAN : Run("b", e)
    \/ ToUrl("b")

Spec == Init /\ [][Next]_vars

-----------------------------------------------------------------------------
(* SpecSelect: one builder, joins and selections of every shape.           *)

SelectBuckets == {"exchange", "__fake_empty__"}

\* join calls, a fourth element of undefined standing for a call with three
\* arguments: aliased, plain, with a dotted source field and an unknown
\* qualifier, one that reuses the alias for another bucket, and an aliased
\* one whose target field is the empty string
SelectJoins ==
    {<<"exchange", <<"src">>, <<"id">>, Str(<<"name">>)>>,
     <<"storeline", <<"name">>, <<"sold_by">>, JsUndefined>>,
     <<"exchange", <<"src", ".", "name">>, <<"unknown", ".", "field">>, JsUndefined>>,
     <<"storeline", <<"src">>, <<"id">>, Str(<<"src", ".", "id">>)>>,
     <<"storeline", <<"s">>, <<"id">>, Str(<<>>)>>}

SelectCalls ==
    {<<<<"id">>>>, <<<<"*">>>>, <<<<"src", ".", "*">>>>, <<<<"src", ".", "name">>>>,
     <<<<"exchange", ".", "name">>>>, <<<<"id">>, <<"id">>>>,
     <<<<"src", ".", "name">>, <<"*">>>>, <<<<"__fake_empty__", ".", "*">>>>}

InitSelect == InitWith(SelectBuckets)

NextSelect ==
    \/ \E j \in SelectJoins :
          Len(joinsOf(World, "b")) < MaxJoinCalls /\ Join("b", j[1], j[2], j[3], j[4])
    \/ \E fields \in SelectCalls :
          /\ Len(selectionsOf(World, "b")) + Len(fields) <= MaxSelectFields
          /\ Select("b", fields)
    \/ PrintSQL("b")

SpecSelect == InitSelect /\ [][NextSelect]_vars

-----------------------------------------------------------------------------
(* SpecWhere: one builder, conditions of every shape, malformed ones        *)
(* included.                                                               *)

\* String values: Bob's, path\to and It's a \test, and one with nothing to
\* escape
Bobs == Str(<<"Bob", "'", "s">>)
PathTo == Str(<<"path", "\\", "to">>)
ItsATest == Str(<<"It", "'", "s", " ", "a", " ", "\\", "test">>)
Coins == Str(<<"Coins">>)

NameField == Str(<<"name">>)
NotEqual == Str(<<"!", "=">>)

\* where(...) argument lists
WellFormedWhereArgs ==
    {<<NameField, Bobs>>,
     <<NameField, PathTo>>,
     <<NameField, Coins>>,
     <<Str(<<"id">>), Num(42)>>,
     <<Str(<<"tradeable">>), Bool(TRUE)>>,
     <<NameField, NotEqual, ItsATest>>,
     <<NameField, Str(<<">">>), BucketNot(Arr(<<NameField, Bobs>>))>>,
     <<BucketAnd(<<Arr(<<NameField, Bobs>>), Arr(<<NameField, NotEqual, PathTo>>)>>)>>,
     <<BucketOr(<<Arr(<<NameField, ItsATest>>), Arr(<<Str(<<"id">>), Num(42)>>)>>)>>,
     <<BucketNot(Arr(<<NameField, Bobs>>))>>,
     <<BucketNot(BucketAnd(<<Arr(<<NameField, PathTo>>)>>))>>,
     <<Arr(<<Str(<<"id">>), Num(42)>>), Arr(<<NameField, Bobs>>)>>}

MalformedWhereArgs ==
    {<<JsNull>>,
     <<JsUndefined>>,
     <<Obj([custom |-> Str(<<"data">>)])>>,
     <<Str(<<"a">>), Str(<<"b">>), Str(<<"c">>), Str(<<"d">>)>>,
     <<>>,
     <<BucketNot(JsNull)>>,
     <<Arr(<<NameField>>)>>}

WhereArgs == WellFormedWhereArgs \cup MalformedWhereArgs

WhereValues == {Bobs, ItsATest, Num(42)}

WhereRanges == {<<Bobs, PathTo>>, <<Num(1), Num(42)>>}

WhereLists == {<<Bobs, PathTo>>, <<Num(42)>>, <<>>}

InitWhere == InitWith({"exchange"})

RoomFor(n) == Len(whereClausesOf(World, "b")) + n <= MaxWhereEntries

NextWhere ==
    \/ \E args \in WhereArgs : RoomFor(1) /\ Where("b", args)
    \/ \E v \in WhereValues : RoomFor(1) /\ WhereNot("b", NameField, v)
    \/ RoomFor(1) /\ WhereNull("b", NameField)
    \/ RoomFor(1) /\ WhereNotNull("b", NameField)
    \/ \E range \in WhereRanges : RoomFor(2) /\ WhereBetween("b", NameField, range)
    \/ \E values \in WhereLists : RoomFor(1) /\ WhereIn("b", NameField, values)
    \/ PrintSQL("b")
    \/ Run("b", TRUE)

SpecWhere == InitWhere /\ [][NextWhere]_vars

-----------------------------------------------------------------------------
(* SpecClone: a builder b and its clone c, each configured on its own.     *)

\* How many list entries builder x holds
Entries(x) ==
    Len(joinsOf(World, x)) + Len(selectionsOf(World, x))
    + Len(whereClausesOf(World, x)) + Len(orderClausesOf(World, x))

InitClone == InitWith({"exchange"})

\* Whether builder x exists and may take one more list entry
Room(x) == x \in DOMAIN builders /\ Entries(x) < MaxCloneEntries

NextClone ==
    \/ Clone("b", "c")
    \/ \E x \in Names :
          Room(x) /\ Join(x, "storeline", <<"s">>, <<"name">>, Str(<<"sold_by">>))
    \/ \E x \in Names : Room(x) /\ Select(x, <<<<"s", ".", "name">>>>)
    \/ \E x \in Names :
          Room(x) /\ Where(x, <<BucketNot(Arr(<<Str(<<"id">>), Num(1)>>))>>)
    \/ \E x \in Names : Room(x) /\ OrderBy(x, <<"id">>, <<"desc">>)
    \/ \E x \in Names : Limit(x, 10)
    \/ \E x \in Names : Offset(x, 5)
    \/ \E x \in Names : PrintSQL(x)

SpecClone == InitClone /\ [][NextClone]_vars

-----------------------------------------------------------------------------
(* SpecFilters: one builder filtered through where, whereBetween and       *)
(* whereIn, with combinator nodes among the values.                        *)

FilterWhereArgs ==
    {<<Str(<<"id">>), Num(42)>>,
     <<NameField, BucketNull>>,
     <<NameField, BucketNot(Arr(<<Str(<<"id">>), Num(42)>>))>>,
     <<NameField, NotEqual, BucketNull>>,
     <<NameField, NotEqual, BucketAnd(<<Arr(<<Str(<<"id">>), Num(42)>>)>>)>>}

FilterRanges == {<<Num(1), Num(42)>>, <<Bobs, Coins>>}

FilterLists == {<<>>, <<Num(42), Num(42)>>, <<Coins, Bobs>>}

NextFilters ==
    \/ \E args \in FilterWhereArgs : Entries("b") + 1 <= MaxFilterEntries /\ Where("b", args)
    \/ \E range \in FilterRanges : Entries("b") + 2 <= MaxFilterEntries /\ WhereBetween("b", NameField, range)
    \/ \E values \in FilterLists : Entries("b") + 1 <= MaxFilterEntries /\ WhereIn("b", NameField, values)
    \/ PrintSQL("b")

SpecFilters == InitWhere /\ [][NextFilters]_vars

-----------------------------------------------------------------------------
(* SpecPage: a builder and its clone, paged with integers of every sign.   *)

Pages == {-1, 0, 1, 3}
PerPages == {-5, 0, 10, 6000}

NextPage ==
    \/ Clone("b", "c")
    \/ \E x \in Names, n \in {-5, 0, 1, 10, 5000, 5001} : Limit(x, n)
    \/ \E x \in Names, n \in {-5, 0, 5} : Offset(x, n)
    \/ \E x \in Names, page \in Pages, perPage \in PerPages : Paginate(x, page, perPage)
    \/ \E x \in Names : First(x)
    \/ \E x \in Names : PrintSQL(x)

SpecPage == InitWhere /\ [][NextPage]_vars

-----------------------------------------------------------------------------
(* SpecAlias: one builder, an aliased join, and dotted references in       *)
(* select, where and orderBy.                                              *)

\* References qualified by the alias, by the main bucket, by a name no join
\* declared, and by the name of a member every object inherits, and one whose
\* remainder holds a further dot
AliasRefs ==
    {<<"s", ".", "name">>, <<"exchange", ".", "id">>, <<"other", ".", "field">>,
     <<"toString", ".", "name">>, <<"exchange", ".", "a", ".", "b">>}

\* A condition on ref nested in And, Not and Or
NestedCondition(ref) ==
    BucketAnd(<<BucketNot(Arr(<<Str(ref), Num(1)>>)),
                BucketOr(<<Arr(<<Str(ref), NotEqual, Num(1)>>)>>)>>)

NextAlias ==
    \/ Entries("b") < MaxAliasEntries /\ Join("b", "storeline", <<"s">>, <<"id">>, Str(<<"id">>))
    \/ \E ref \in AliasRefs : Entries("b") < MaxAliasEntries /\ Select("b", <<ref>>)
    \/ \E ref \in AliasRefs : Entries("b") < MaxAliasEntries /\ Where("b", <<Str(ref), Num(1)>>)
    \/ \E ref \in AliasRefs : Entries("b") < MaxAliasEntries /\ Where("b", <<NestedCondition(ref)>>)
    \/ \E ref \in AliasRefs : Entries("b") < MaxAliasEntries /\ OrderBy("b", ref, <<"asc">>)
    \/ PrintSQL("b")

SpecAlias == InitWhere /\ [][NextAlias]_vars

-----------------------------------------------------------------------------
(* SpecOrder: one builder, selections with and without wildcards, and      *)
(* orderings by fields they cover or leave out.                            *)

OrderSelectors == {<<"name">>, <<"*">>, <<"s", ".", "*">>, <<"a", ".", "b", ".", "*">>}

OrderFields == {<<"name">>, <<"id">>, <<"s", ".", "id">>, <<"a", ".", "c">>}

NextOrder ==
    \/ \E sel \in OrderSelectors :
          Entries("b") < MaxOrderEntries /\ Select("b", <<sel>>)
    \/ \E field \in OrderFields, direction \in {<<"asc">>, <<"desc">>} :
          Entries("b") < MaxOrderEntries /\ OrderBy("b", field, direction)
    \/ PrintSQL("b")

SpecOrder == InitWhere /\ [][NextOrder]_vars

-----------------------------------------------------------------------------
(* SpecWhen: a builder and its clone, configured through when alone.       *)

Callbacks == {"where", "limit", "orderBy", "whereOffset", "nothing"}

NextWhen ==
    \/ Clone("b", "c")
    \/ \E x \in Names, condition \in BOOLEAN, body \in Callbacks :
          /\ x \in DOMAIN builders
          /\ Entries(x) < MaxWhenEntries
          /\ When(x, condition, body)
    \/ \E x \in Names : PrintSQL(x)

SpecWhen == InitWhere /\ [][NextWhen]_vars

-----------------------------------------------------------------------------
(* SpecResponse: responses built over payloads with and without rows and    *)
(* with and without an error, and every accessor read.                     *)

\* The payloads: bucketQuery always, bucket and error each present or absent;
\* no, one or two rows; an empty error text or the text of a failed query
Payloads ==
    LET whip == Obj([id |-> Num(4151), name |-> Str(<<"Abyssal", " ", "whip">>)])
        godsword == Obj([id |-> Num(11802), name |-> Str(<<"Armadyl", " ", "godsword">>)])
        queries == {<<"bucket(", "'", "exchange", "'", ")", ".run()">>,
                    <<"bucket(", "'", "invalid_bucket", "'", ")", ".run()">>}
        buckets == {<<>>, <<whip>>, <<godsword, whip>>}
        errors == {<<>>, <<"Bucket", " ", "'", "invalid_bucket", "'", " ", "does", " ",
                           "not", " ", "exist">>}
        base == {[bucketQuery |-> Str(q)] : q \in queries}
        withBucket == base \cup {("bucket" :> Arr(rows)) @@ p : p \in base, rows \in buckets}
    IN  {Obj(p) : p \in withBucket \cup {("error" :> Str(e)) @@ p :
                                            p \in withBucket, e \in errors}}

NextResponse ==
    \/ \E payload \in Payloads : NewBucketResponse(payload)
    \/ ResponseQuery
    \/ ResponseResults
    \/ ResponseError
    \/ ResponseFirst

SpecResponse == InitWhere /\ [][NextResponse]_vars

-----------------------------------------------------------------------------
(* SpecCopy: a builder whose conditions hold booleans, nested combinators, *)
(* absent values and malformed shapes, and its clone.                      *)

NextCopy ==
    \/ \E args \in {<<Str(<<"tradeable">>), Bool(TRUE)>>,
                     <<NameField, NotEqual, ItsATest>>,
                     <<BucketNot(BucketAnd(<<Arr(<<NameField, PathTo>>)>>))>>,
                     <<NameField, JsUndefined>>,
                     <<JsUndefined>>,
                     <<Obj([custom |-> Str(<<"data">>)])>>} :
          Len(whereClausesOf(World, "b")) < MaxCopyEntries /\ Where("b", args)
    \/ Clone("b", "c")
    \/ \E x \in Names : PrintSQL(x)

SpecCopy == InitWhere /\ [][NextCopy]_vars

-----------------------------------------------------------------------------
(* Reading a rendered query: the clauses of a string printSQL returned and *)
(* the arguments of a clause.                                              *)

Openers == <<"bucket(", ".join(", ".select(", ".where(", ".orderBy(", ".limit(",
             ".offset(", ".run()">>

IsOpener(c) == \E k \in 1..Len(Openers) : Openers[k] = c

\* The position of a clause opener in the order the Bucket API expects
Rank(c) == CHOOSE k \in 1..Len(Openers) : Openers[k] = c

\* The positions of s that satisfy Test, in increasing order
Positions(s, Test(_)) ==
    LET At(i) == Test(s[i])
    IN  SelectSeq([i \in 1..Len(s) |-> i], At)

\* The clauses of the rendered string s, each from its opener up to the next
ClausesAt(s, starts) ==
    [k \in 1..Len(starts) |->
        SubSeq(s, starts[k], (IF k < Len(starts) THEN starts[k + 1] ELSE Len(s) + 1) - 1)]

ClausesOf(s) == ClausesAt(s, Positions(s, IsOpener))

\* The clauses of s that open with opener
ClausesOpening(s, opener) ==
    LET Opens(c) == c[1] = opener
    IN  SelectSeq(ClausesOf(s), Opens)

\* The arguments of a clause: what stands between its opener and its closing
\* parenthesis, cut at every ", "
IsComma(c) == c = ","

ArgsAt(body, commas) ==
    [k \in 1..(Len(commas) + 1) |->
        SubSeq(body,
               IF k = 1 THEN 1 ELSE commas[k - 1] + 2,
               (IF k <= Len(commas) THEN commas[k] ELSE Len(body) + 1) - 1)]

ArgsOfBody(body) == IF body = <<>> THEN <<>> ELSE ArgsAt(body, Positions(body, IsComma))

ArgsOf(clause) == ArgsOfBody(SubSeq(clause, 2, Len(clause) - 1))

\* The texts of a sequence of strings
Texts(ss) == [i \in 1..Len(ss) |-> Text(ss[i])]

\* The first position of text t in the sequence of texts ts
FirstIndex(ts, t) == CHOOSE i \in 1..Len(ts) : ts[i] = t /\ \A k \in 1..(i - 1) : ts[k] # t

NoDuplicates(ts) == \A i, k \in 1..Len(ts) : ts[i] = ts[k] => i = k

Range(f) == {f[i] : i \in DOMAIN f}

\* What out.op is after a rendering call
RenderOps == {"printSQL", "run", "runRaw", "toUrl"}

\* What the last call returned, when it was printSQL and it returned a string
Printed(x) == out.op = "printSQL" /\ out.who = x /\ out.result # Thrown

-----------------------------------------------------------------------------
(* Clause order, limit and the frame of rendering (Spec).                  *)

\* The openers of the clauses of the rendered string s, in order
OpenersOf(s) == SelectSeq(s, IsOpener)

Repeatable == {".join(", ".where(", ".orderBy("}

InClauseOrder(ops) ==
    /\ ops[1] = "bucket("
    /\ ops[Len(ops)] = ".run()"
    /\ \A i, k \in 1..Len(ops) :
          i < k => /\ Rank(ops[i]) <= Rank(ops[k])
                   /\ ops[i] = ops[k] => ops[i] \in Repeatable

\* C1: whatever configuration calls were made and in whatever order, the
\* string printSQL returns starts with the bucket call and ends with .run(),
\* and its clauses stand in the order joins, select, where, orderBy, limit,
\* offset, with at most one select, one limit and one offset clause.
C1_ClauseOrder ==
    Printed("b") =>
        /\ out.result.s[1] = "bucket("
        /\ out.result.s[Len(out.result.s)] = ".run()"
        /\ InClauseOrder(OpenersOf(out.result.s))

\* C1 witness: printSQL returned a string with two joins, a select clause,
\* two where clauses, an orderBy, a limit and an offset clause, the calls
\* having been made in another order (the limit before the select).
C1_Witness ==
    /\ Printed("b")
    /\ OpenersOf(out.result.s) =
          <<"bucket(", ".join(", ".join(", ".select(", ".where(", ".where(",
            ".orderBy(", ".limit(", ".offset(", ".run()">>

\* The limit clauses of the rendered string s
LimitClausesIn(s) == Texts(ClausesOpening(s, ".limit("))

\* The string printSQL returned has a limit clause exactly when the stored
\* limit is not 500, and the clause holds the stored limit
LimitClauseIff(x) ==
    Printed(x) =>
        IF builders[x].limitValue = 500 THEN LimitClausesIn(out.result.s) = <<>>
        ELSE LimitClausesIn(out.result.s) =
                <<".limit(" \o Text(NumberToString(builders[x].limitValue)) \o ")">>

\* What limit(n) leaves behind
LimitOutcome(n, stored, warnings) ==
    /\ n <= 0 => stored = 500
    /\ n > 5000 => stored = 5000 /\ Len(warnings) = 1
    /\ (1 <= n /\ n <= 5000) => stored = n /\ warnings = <<>>

\* C5: limit(n) stores 500 when n <= 0, stores 5000 and writes a warning
\* when n > 5000, and stores n without a warning when 1 <= n <= 5000; the
\* string printSQL returns has a limit clause, holding the stored limit,
\* exactly when the stored limit is not 500: so none after limit(0),
\* limit(-5) and limit(500), and .limit(5000) after limit(10000).
C5_LimitClamps ==
    /\ []LimitClauseIff("b")
    /\ [][\A n \in MixedLimits :
             (out'.op = "config" /\ Limit("b", n)) =>
                LimitOutcome(n, builders'["b"].limitValue, console')]_vars

\* C5 witness: limit(10000) has just returned: 5000 is stored and the
\* warning is written.
C5_Witness ==
    /\ out.op = "config"
    /\ builders["b"].limitValue = 5000
    /\ Len(console) = 1
    /\ console[1][1] = "Limit"

\* The state the constructor leaves
Bare(x) ==
    /\ joinsOf(World, x) = <<>>
    /\ selectionsOf(World, x) = <<>>
    /\ whereClausesOf(World, x) = <<>>
    /\ orderClausesOf(World, x) = <<>>
    /\ builders[x].limitValue = 500
    /\ builders[x].offsetValue = 0

\* C7: printSQL on a builder for bucket B that is as its constructor left
\* it returns exactly bucket('B').run(), with no other clause.
C7_BareBuilder ==
    (Printed("b") /\ Bare("b")) =>
        Text(out.result.s) = "bucket('" \o builders["b"].mainBucket \o "').run()"

\* C7 witness: printSQL returned for the builder bucket('exchange') before
\* any configuration.
C7_Witness ==
    /\ Printed("b")
    /\ Bare("b")
    /\ builders["b"].mainBucket = "exchange"
    /\ Text(out.result.s) = "bucket('exchange').run()"

\* A rendering call on builder x
Rendering(x) == PrintSQL(x) \/ Run(x, TRUE) \/ Run(x, FALSE) \/ ToUrl(x)

\* C8: printSQL, run and toUrl leave the builder as it was (joins, alias
\* map, selections, conditions, ordering, limit, offset), and a printSQL that
\* follows a printSQL returns the same string.
C8_RenderingIsPure ==
    [][/\ (out'.op \in RenderOps /\ Rendering("b")) =>
            builders' = builders /\ heap' = heap
       /\ (out.op = "printSQL" /\ out'.op = "printSQL" /\ PrintSQL("b")) =>
            out'.result = out.result]_vars

\* C8 witness: toUrl returned for a builder with joins, selections,
\* conditions, an ordering, a limit and an offset.
C8_Witness ==
    /\ out.op = "toUrl"
    /\ joinsOf(World, "b") # <<>>
    /\ selectionsOf(World, "b") # <<>>
    /\ whereClausesOf(World, "b") # <<>>
    /\ orderClausesOf(World, "b") # <<>>
    /\ builders["b"].limitValue # 500
    /\ builders["b"].offsetValue # 0

-----------------------------------------------------------------------------
(* Conditions (SpecWhere).                                                 *)

\* The escaping the rendered string values are to have: every backslash
\* doubled, then every single quote preceded by a backslash
DoubleBackslashes(s) ==
    Flatten([i \in 1..Len(s) |-> IF s[i] = "\\" THEN <<"\\", "\\">> ELSE <<s[i]>>])

EscapeQuotes(s) ==
    Flatten([i \in 1..Len(s) |-> IF s[i] = "'" THEN <<"\\", "'">> ELSE <<s[i]>>])

EscapeLuaString(s) == EscapeQuotes(DoubleBackslashes(s))

\* ts[1] sep ts[2] sep ... ts[n]
RECURSIVE JoinTexts(_, _)
JoinTexts(ts, sep) ==
    IF ts = <<>> THEN ""
    ELSE IF Len(ts) = 1 THEN ts[1]
    ELSE ts[1] \o sep \o JoinTexts(Tail(ts), sep)

IsHelper(v) == v.t = "obj" /\ HasKey(v, "_type")

IsScalar(v) == v.t \in {"str", "num", "bool"}

\* A condition of one of the shapes the builder's types allow
RECURSIVE WellFormed(_)
WellFormed(cond) ==
    CASE cond.t = "obj" /\ (PropIs(cond, "_type", "AND") \/ PropIs(cond, "_type", "OR")) ->
            /\ Prop(cond, "conditions").t = "arr"
            /\ \A i \in 1..Len(Prop(cond, "conditions").a) :
                  WellFormed(Prop(cond, "conditions").a[i])
      [] cond.t = "obj" /\ PropIs(cond, "_type", "NOT") -> WellFormed(Prop(cond, "condition"))
      [] cond.t = "obj" /\ PropIs(cond, "_type", "NULL") -> TRUE
      [] cond.t = "arr" /\ Len(cond.a) = 2 ->
            /\ cond.a[1].t = "str"
            /\ IsScalar(cond.a[2]) \/ PropIs(cond.a[2], "_type", "NULL")
      [] cond.t = "arr" /\ Len(cond.a) = 3 ->
            /\ cond.a[1].t = "str"
            /\ cond.a[2].t = "str"
            /\ IsScalar(cond.a[3]) \/ (IsHelper(cond.a[3]) /\ WellFormed(cond.a[3]))
      [] OTHER -> FALSE

\* A scalar value as the claim renders it: a string escaped and between
\* single quotes, a number or a boolean as it is
ExpectedValue(v) ==
    IF v.t = "str" THEN "'" \o Text(EscapeLuaString(v.s)) \o "'"
    ELSE Text(TemplateString(v))

\* A well-formed condition as the claim renders it
RECURSIVE ExpectedCondition(_)
ExpectedCondition(cond) ==
    CASE cond.t = "obj" /\ PropIs(cond, "_type", "AND") ->
            "bucket.And("
            \o JoinTexts([i \in 1..Len(Prop(cond, "conditions").a) |->
                            ExpectedCondition(Prop(cond, "conditions").a[i])], ", ")
            \o ")"
      [] cond.t = "obj" /\ PropIs(cond, "_type", "OR") ->
            "bucket.Or("
            \o JoinTexts([i \in 1..Len(Prop(cond, "conditions").a) |->
                            ExpectedCondition(Prop(cond, "conditions").a[i])], ", ")
            \o ")"
      [] cond.t = "obj" /\ PropIs(cond, "_type", "NOT") ->
            "bucket.Not(" \o ExpectedCondition(Prop(cond, "condition")) \o ")"
      [] cond.t = "obj" /\ PropIs(cond, "_type", "NULL") -> "bucket.Null()"
      [] cond.t = "arr" /\ Len(cond.a) = 2 ->
            "{ '" \o Text(cond.a[1].s) \o "', "
            \o (IF IsHelper(cond.a[2]) THEN "bucket.Null()" ELSE ExpectedValue(cond.a[2]))
            \o " }"
      [] cond.t = "arr" /\ Len(cond.a) = 3 ->
            "{ '" \o Text(cond.a[1].s) \o "', '" \o Text(cond.a[2].s) \o "', "
            \o (IF IsHelper(cond.a[3]) THEN ExpectedCondition(cond.a[3])
                ELSE ExpectedValue(cond.a[3]))
            \o " }"

\* An entry of whereClauses: a condition or a group of conditions
WellFormedEntry(entry) ==
    IF HasKey(entry, "_group")
    THEN \A k \in 1..Len(entry.p["_group"].a) : WellFormed(entry.p["_group"].a[k])
    ELSE WellFormed(entry)

ExpectedEntry(entry) ==
    IF HasKey(entry, "_group")
    THEN JoinTexts([k \in 1..Len(entry.p["_group"].a) |->
                        ExpectedCondition(entry.p["_group"].a[k])], ", ")
    ELSE ExpectedCondition(entry)

\* The where clauses of a rendered string, as texts
WhereClausesIn(s) == Texts(ClausesOpening(s, ".where("))

\* C2: in the string printSQL returns, every string value of a simple
\* condition (with or without operator, at top level, inside And, Or and
\* Not, or stored by whereNot, whereIn and whereBetween) stands between
\* single quotes with every backslash doubled and then every single quote
\* preceded by a backslash; numbers and booleans stand unquoted and
\* unchanged.
C2_StringValuesEscaped ==
    Printed("b") =>
        LET entries == whereClausesOf(World, "b")
            rendered == WhereClausesIn(out.result.s)
        IN  \A i \in 1..Len(entries) :
                WellFormedEntry(entries[i]) =>
                    rendered[i] = ".where(" \o ExpectedEntry(entries[i]) \o ")"

\* C6: no call throws: every configuration call returns the builder, and
\* printSQL and run return a string, whatever the conditions given,
\* malformed ones included.
C6_NeverThrows ==
    IF out.op \in RenderOps THEN out.result.t = "str" ELSE out.result.t = "builder"

-----------------------------------------------------------------------------
(* Clones (SpecClone).                                                     *)

\* Every part of the state of builder x in world w
StateOf(w, x) ==
    [joins |-> joinsOf(w, x),
     aliasMap |-> aliasMapOf(w, x),
     selections |-> selectionsOf(w, x),
     whereClauses |-> whereClausesOf(w, x),
     orderClauses |-> orderClausesOf(w, x),
     limitValue |-> w.builders[x].limitValue,
     offsetValue |-> w.builders[x].offsetValue]

\* Builder y is after the step what it was before it, part by part and as
\* printSQL renders it
Untouched(y) ==
    /\ StateOf(WorldAfter, y) = StateOf(World, y)
    /\ printSQLText(WorldAfter, y) = printSQLText(World, y)

\* C4: once c = b.clone() exists, a configuration call on b leaves every
\* part of c (joins, alias map, selections, conditions, ordering, limit,
\* offset) and the rendered output of c unchanged, and a configuration call
\* on c leaves those of b unchanged.
C4_CloneIsolation ==
    [][\A x \in Names :
          (out'.op = "config" /\ out'.who = x) =>
              \A y \in DOMAIN builders \ {x} : Untouched(y)]_vars

\* C4 witness: after the clone, a condition was added to b and c kept the
\* conditions, limit and offset it was cloned with.
C4_Witness ==
    /\ "c" \in DOMAIN builders
    /\ out.op = "config"
    /\ out.who = "b"
    /\ Len(whereClausesOf(World, "c")) = 1
    /\ Len(whereClausesOf(World, "b")) = 2
    /\ builders["c"].limitValue = 10
    /\ builders["b"].offsetValue # builders["c"].offsetValue

-----------------------------------------------------------------------------
(* Selections and joins (SpecSelect).                                      *)

\* The selectors requested so far, expanded one by one, as texts
RequestedSelectors(x) ==
    Texts(Flatten([i \in 1..Len(selectLog[x]) |-> expandField(World, x, selectLog[x][i])]))

SelectedIn(s) ==
    LET cs == ClausesOpening(s, ".select(")
    IN  IF cs = <<>> THEN <<>> ELSE Texts(ArgsOf(cs[1]))

FirstSeenOrder(rendered, requested) ==
    /\ NoDuplicates(rendered)
    /\ Range(rendered) = Range(requested)
    /\ \A i, k \in 1..Len(rendered) :
          i < k => FirstIndex(requested, rendered[i]) < FirstIndex(requested, rendered[k])

\* C3: the selections of a builder are the fields of all its select calls,
\* in call order, and the select clause printSQL returns holds each distinct
\* expanded selector exactly once, in the order the selectors were first
\* requested, however often and in however many calls each was requested.
C3_SelectionsAccumulate ==
    /\ selectionsOf(World, "b") = selectLog["b"]
    /\ Printed("b") =>
          /\ Len(ClausesOpening(out.result.s, ".select(")) <= 1
          /\ FirstSeenOrder(SelectedIn(out.result.s), RequestedSelectors("b"))

\* C3 witness: printSQL returned for a builder whose two select calls asked
\* for the same expanded selector twice.
C3_Witness ==
    /\ Printed("b")
    /\ Len(selectLog["b"]) = 2
    /\ ~NoDuplicates(RequestedSelectors("b"))
    /\ SelectedIn(out.result.s) # <<>>
\* The builder was asked for the wildcard and for nothing else
OnlyWildcard(x) ==
    /\ selectLog[x] # <<>>
    /\ \A i \in 1..Len(selectLog[x]) : selectLog[x][i] = <<"*">>

\* The quoted selectors of the registered fields of the main bucket,
\* in registry order
MainSelectors(x) ==
    LET fields == RegisteredFields(builders[x].mainBucket)
    IN  [i \in 1..Len(fields) |-> Text(Quote(<<fields[i]>>))]

\* The quoted selectors 'T.f' of the registered fields of the joined buckets
JoinedSelectors(x) ==
    LET joins == joinsOf(World, x)
    IN  UNION {{Text(Quote(<<joins[j].target, ".", f>>)) :
                    f \in Range(RegisteredFields(joins[j].target))} :
               j \in 1..Len(joins)}

ExpectedJoinField(map, ownBucket, field) ==
    IF ~IncludesDot(field) THEN ownBucket \o "." \o Text(field)
    ELSE LET q == Text(SplitDot(field)[1])
         IN  IF q \in DOMAIN map
             THEN map[q] \o "." \o Text(SplitDot(field)[2])
             ELSE Text(field)

\* The arguments the claim gives the rendered join of a call join(j[1], j[2],
\* j[3]) or join(j[1], j[2], j[3], j[4]): a call with four arguments names
\* the alias second, the source field third and the target field fourth
DeclaredJoinArgs(w, x, j) ==
    LET source == IF j[4] # JsUndefined THEN j[3] ELSE j[2]
        target == IF j[4] # JsUndefined THEN j[4].s ELSE j[3]
    IN  <<Text(Quote(<<j[1]>>)),
          "'" \o ExpectedJoinField(aliasMapOf(w, x), w.builders[x].mainBucket, source) \o "'",
          "'" \o ExpectedJoinField(aliasMapOf(w, x), j[1], target) \o "'">>

\* The arguments of the last join clause of the string printSQL builds
LastJoinArgs(w, x) ==
    LET rendered == ClausesOpening(printSQLText(w, x), ".join(")
    IN  Texts(ArgsOf(rendered[Len(rendered)]))

\* C10: after every join call, declared with an alias or without, the last
\* join clause printSQL renders has exactly three arguments: the target
\* bucket, the declared source field and the declared target field, each
\* resolved through the alias map and qualified with the main bucket,
\* respectively the target bucket, when it holds no dot; the alias is not
\* among them.
C10_JoinsAsDeclared ==
    [][\A j \in SelectJoins :
          Join("b", j[1], j[2], j[3], j[4]) =>
              LastJoinArgs(WorldAfter, "b") = DeclaredJoinArgs(WorldAfter, "b", j)]_vars

-----------------------------------------------------------------------------
(* whereBetween, whereIn and combinator values (SpecFilters).              *)

\* The where clauses of a rendered string, as chunk sequences
WhereClauseChunks(s) == ClausesOpening(s, ".where(")

\* A value whose rendering needs no escaping
NothingToEscape(v) == v.t # "str" \/ \A i \in 1..Len(v.s) : v.s[i] \notin {"'", "\\"}

\* The rendered clause holds the one condition (field, op, value)
BoundClause(clause, field, op, value) ==
    LET args == Texts(ArgsOf(clause))
    IN  /\ Len(args) = 3
        /\ args[1] = "{ '" \o Text(field.s) \o "'"
        /\ args[2] = "'" \o op \o "'"
        /\ NothingToEscape(value) => args[3] = ExpectedValue(value) \o " }"

\* What whereBetween(field, range) leaves behind: two more conditions and
\* two more rendered clauses, the lower bound first
BetweenOutcome(before, after, renderedBefore, renderedAfter, field, range) ==
    /\ after = before \o <<Arr(<<field, Str(<<">", "=">>), range[1]>>),
                          Arr(<<field, Str(<<"<", "=">>), range[2]>>)>>
    /\ Len(renderedAfter) = Len(renderedBefore) + 2
    /\ SubSeq(renderedAfter, 1, Len(renderedBefore)) = renderedBefore
    /\ BoundClause(renderedAfter[Len(renderedBefore) + 1], field, ">=", range[1])
    /\ BoundClause(renderedAfter[Len(renderedBefore) + 2], field, "<=", range[2])

\* C12: whereBetween(f, [a, b]) appends exactly two conditions to the
\* condition list, (f, '>=', a) followed by (f, '<=', b), and the string
\* printSQL builds then holds two more where clauses, the '>=' clause and
\* after it the '<=' clause, after every where clause it held before.
C12_WhereBetween ==
    [][\A range \in FilterRanges :
          (out'.op = "config" /\ WhereBetween("b", NameField, range)) =>
              \A textBefore \in {printSQLText(World, "b")},
                 textAfter \in {printSQLText(WorldAfter, "b")} :
              \A renderedBefore \in {WhereClauseChunks(textBefore)},
                 renderedAfter \in {WhereClauseChunks(textAfter)} :
                  BetweenOutcome(whereClausesOf(World, "b"), whereClausesOf(WorldAfter, "b"),
                                 renderedBefore, renderedAfter, NameField, range)]_vars

\* C12 witness: whereBetween('name', [1, 42]) has returned on a builder that
\* held a where clause before.
C12_Witness ==
    /\ out.op = "config"
    /\ Len(whereClausesOf(World, "b")) = 3
    /\ SubSeq(whereClausesOf(World, "b"), 2, 3)
         = <<Arr(<<NameField, Str(<<">", "=">>), Num(1)>>),
             Arr(<<NameField, Str(<<"<", "=">>), Num(42)>>)>>

\* The number of conditions between braces in a rendered clause
BracesIn(clause) == Len(Positions(clause, LAMBDA c : c = "{"))

\* What whereIn(field, values) leaves behind: one more entry, an Or node with
\* one equality condition per value, and one more rendered clause
InOutcome(before, after, renderedBefore, renderedAfter, field, values) ==
    /\ Len(after) = Len(before) + 1
    /\ SubSeq(after, 1, Len(before)) = before
    /\ LET node == after[Len(after)]
       IN  /\ PropIs(node, "_type", "OR")
           /\ Prop(node, "conditions").t = "arr"
           /\ Len(Prop(node, "conditions").a) = Len(values)
           /\ \A i \in 1..Len(values) :
                 Prop(node, "conditions").a[i] = Arr(<<field, values[i]>>)
    /\ Len(renderedAfter) = Len(renderedBefore) + 1
    /\ SubSeq(renderedAfter, 1, Len(renderedBefore)) = renderedBefore
    /\ LET clause == renderedAfter[Len(renderedAfter)]
       IN  /\ Len(clause) >= 5
           /\ SubSeq(clause, 1, 4) = <<".where(", "bucket.", "Or", "(">>
           /\ SubSeq(clause, Len(clause) - 1, Len(clause)) = <<")", ")">>
           /\ BracesIn(clause) = Len(values)
           /\ values = <<>> => Text(clause) = ".where(bucket.Or())"
           /\ (\A i \in 1..Len(values) : NothingToEscape(values[i])) =>
                 Text(clause) =
                    ".where(bucket.Or("
                    \o JoinTexts([i \in 1..Len(values) |->
                                    "{ '" \o Text(field.s) \o "', "
                                    \o ExpectedValue(values[i]) \o " }"], ", ")
                    \o "))"

\* C13: whereIn(field, values) appends one Or node whose children are the
\* equality conditions (field, v), one per element of values, in the order of
\* values and with duplicates kept; the string printSQL builds then holds one
\* more where clause, bucket.Or(...) with one condition per value, and
\* bucket.Or() without arguments when values is empty.
C13_WhereIn ==
    [][\A values \in FilterLists :
          (out'.op = "config" /\ WhereIn("b", NameField, values)) =>
              \A textBefore \in {printSQLText(World, "b")},
                 textAfter \in {printSQLText(WorldAfter, "b")} :
              \A renderedBefore \in {WhereClauseChunks(textBefore)},
                 renderedAfter \in {WhereClauseChunks(textAfter)} :
                  InOutcome(whereClausesOf(World, "b"), whereClausesOf(WorldAfter, "b"),
                            renderedBefore, renderedAfter, NameField, values)]_vars

\* C13 witness: whereIn('name', [42, 42]) and whereIn('name', []) have
\* returned, and printSQL rendered both.
C13_Witness ==
    /\ Printed("b")
    /\ Len(whereClausesOf(World, "b")) = 2
    /\ whereClausesOf(World, "b")[1]
         = BucketOr(<<Arr(<<NameField, Num(42)>>), Arr(<<NameField, Num(42)>>)>>)
    /\ whereClausesOf(World, "b")[2] = BucketOr(<<>>)
    /\ WhereClausesIn(out.result.s)
         = <<".where(bucket.Or({ 'name', 42 }, { 'name', 42 }))", ".where(bucket.Or())">>

\* A simple condition whose value is a combinator node
HelperValued(entry) ==
    /\ entry.t = "arr"
    /\ Len(entry.a) \in {2, 3}
    /\ IsHelper(entry.a[Len(entry.a)])

\* A simple condition with a combinator value, the value formatted as a node
RecursivelyFormatted(cond) ==
    IF Len(cond.a) = 2
    THEN "{ '" \o Text(cond.a[1].s) \o "', " \o ExpectedCondition(cond.a[2]) \o " }"
    ELSE "{ '" \o Text(cond.a[1].s) \o "', '" \o Text(cond.a[2].s) \o "', "
         \o ExpectedCondition(cond.a[3]) \o " }"

\* C20: in the string printSQL returns, a simple condition of two elements
\* (field, value) or of three (field, operator, value) whose value is an
\* And, Or, Not or Null node holds that node formatted recursively, as
\* bucket.And(...), bucket.Or(...), bucket.Not(...) or bucket.Null().
C20_HelperValuesFormatted ==
    Printed("b") =>
        LET entries == whereClausesOf(World, "b")
            rendered == WhereClausesIn(out.result.s)
        IN  \A i \in 1..Len(entries) :
                HelperValued(entries[i]) =>
                    rendered[i] = ".where(" \o RecursivelyFormatted(entries[i]) \o ")"

-----------------------------------------------------------------------------
(* Pagination (SpecPage).                                                  *)

\* The offset clauses of the rendered string s
OffsetClausesIn(s) == Texts(ClausesOpening(s, ".offset("))

\* What paginate(page, perPage) leaves behind on builder x: the limit and the
\* warnings of limit(perPage), the offset of offset((p - 1) * perPage), and
\* nothing else changed
PaginateOutcome(x, page, perPage) ==
    LET p == IF page < 1 THEN 1 ELSE page
    IN  /\ LimitOutcome(perPage, builders'[x].limitValue, console')
        /\ builders'[x].offsetValue = (p - 1) * perPage
        /\ builders' = [builders EXCEPT ![x].limitValue = builders'[x].limitValue,
                                        ![x].offsetValue = builders'[x].offsetValue]
        /\ heap' = heap
        /\ LET two == offset(limit(World, x, perPage), x, (p - 1) * perPage)
           IN  /\ builders' = two.builders
               /\ console' = two.console
        /\ page \in {0, 1} =>
              /\ builders'[x].offsetValue = 0
              /\ \A text \in {printSQLText(WorldAfter, x)} : OffsetClausesIn(text) = <<>>

\* C14: paginate(page, perPage) leaves the builder as limit(perPage)
\* followed by offset((p - 1) * perPage) leaves it, where p is 1 when
\* page < 1 and page otherwise; after paginate(0, n) and paginate(1, n) the
\* offset is 0 and the string printSQL builds has no offset clause.
C14_Paginate ==
    [][\A page \in Pages, perPage \in PerPages :
          (out'.op = "config" /\ Paginate("b", page, perPage)) =>
              PaginateOutcome("b", page, perPage)]_vars

\* C14 witness: paginate(3, 10) has returned: limit 10 and offset 20.
C14_Witness ==
    /\ out.op = "config"
    /\ out.who = "b"
    /\ builders["b"].limitValue = 10
    /\ builders["b"].offsetValue = 20

\* C18: the limit every builder stores, the original's and the clone's, is
\* an integer from 1 to 5000, whatever limit, first, paginate and clone calls
\* with integer arguments came before.
C18_LimitInRange ==
    \A x \in DOMAIN builders :
        /\ builders[x].limitValue \in Int
        /\ 1 <= builders[x].limitValue
        /\ builders[x].limitValue <= 5000

\* C18 witness: the original holds the clamped maximum after a warning-raising
\* call, and its clone holds 1.
C18_Witness ==
    /\ "c" \in DOMAIN builders
    /\ builders["b"].limitValue = 5000
    /\ builders["c"].limitValue = 1
    /\ out.op = "config"
    /\ Len(console) = 1

\* C19: the offset every builder stores is a non-negative integer, whatever
\* offset and paginate calls with integer arguments came before.
C19_OffsetNonNegative ==
    \A x \in DOMAIN builders :
        /\ builders[x].offsetValue \in Int
        /\ builders[x].offsetValue >= 0

-----------------------------------------------------------------------------
(* Alias resolution (SpecAlias).                                           *)

\* A reference q.f as the claim renders it under the alias map: the bucket
\* the map gives for q in place of q when q is a key of the map, the
\* reference unchanged otherwise
ExpectedRef(map, ref) ==
    IF ~IncludesDot(ref) THEN Text(ref)
    ELSE LET q == Text(SplitDot(ref)[1])
         IN  IF q \in DOMAIN map THEN map[q] \o "." \o Text(SplitDot(ref)[2])
             ELSE Text(ref)

\* A condition over numbers as the claim renders it, its fields resolved
RECURSIVE ExpectedResolved(_, _)
ExpectedResolved(map, cond) ==
    CASE cond.t = "obj" /\ (PropIs(cond, "_type", "AND") \/ PropIs(cond, "_type", "OR")) ->
            (IF PropIs(cond, "_type", "AND") THEN "bucket.And(" ELSE "bucket.Or(")
            \o JoinTexts([i \in 1..Len(Prop(cond, "conditions").a) |->
                            ExpectedResolved(map, Prop(cond, "conditions").a[i])], ", ")
            \o ")"
      [] cond.t = "obj" /\ PropIs(cond, "_type", "NOT") ->
            "bucket.Not(" \o ExpectedResolved(map, Prop(cond, "condition")) \o ")"
      [] cond.t = "arr" /\ Len(cond.a) = 2 ->
            "{ '" \o ExpectedRef(map, cond.a[1].s) \o "', " \o ExpectedValue(cond.a[2]) \o " }"
      [] cond.t = "arr" /\ Len(cond.a) = 3 ->
            "{ '" \o ExpectedRef(map, cond.a[1].s) \o "', '" \o Text(cond.a[2].s) \o "', "
            \o ExpectedValue(cond.a[3]) \o " }"

\* The orderBy clauses of a rendered string, as texts
OrderClausesIn(s) == Texts(ClausesOpening(s, ".orderBy("))

\* C11: in the string printSQL returns, every reference q.f of a selector,
\* of a where condition (at top level or nested in And, Or and Not) and of an
\* orderBy entry stands as realBucket.f when q is a key of the alias map,
\* realBucket being the map's value for q, and stands unchanged when q is no
\* key of the map.
C11_AliasesResolved ==
    Printed("b") =>
        LET map == aliasMapOf(World, "b")
            selections == selectionsOf(World, "b")
            entries == whereClausesOf(World, "b")
            orders == orderClausesOf(World, "b")
        IN  /\ Range(SelectedIn(out.result.s))
                 = {"'" \o ExpectedRef(map, selections[i]) \o "'" : i \in 1..Len(selections)}
            /\ WhereClausesIn(out.result.s)
                 = [i \in 1..Len(entries) |->
                        ".where("
                        \o (IF HasKey(entries[i], "_group")
                            THEN ExpectedResolved(map, entries[i].p["_group"].a[1])
                            ELSE ExpectedResolved(map, entries[i]))
                        \o ")"]
            /\ OrderClausesIn(out.result.s)
                 = [i \in 1..Len(orders) |->
                        ".orderBy('" \o ExpectedRef(map, orders[i].field) \o "', '"
                        \o Text(orders[i].direction) \o "')"]

-----------------------------------------------------------------------------
(* The orderBy warning (SpecOrder).                                        *)

\* Selector sel is q.* and field starts with q.
CoveredByQualifierWildcard(sel, field) ==
    /\ Len(sel) >= 2
    /\ SubSeq(sel, Len(sel) - 1, Len(sel)) = <<".", "*">>
    /\ Len(field) >= Len(sel) - 1
    /\ SubSeq(field, 1, Len(sel) - 1) = SubSeq(sel, 1, Len(sel) - 1)

\* The selections are non-empty and hold neither field, nor *, nor a q.* with
\* field starting with q.
LeftOut(selections, field) ==
    /\ selections # <<>>
    /\ \A i \in 1..Len(selections) :
          /\ selections[i] # field
          /\ selections[i] # <<"*">>
          /\ ~CoveredByQualifierWildcard(selections[i], field)

\* C15: orderBy(field, direction) always appends (field, direction) to the
\* ordering list, and it writes a warning exactly when, at the call, the
\* selection list is non-empty and holds neither field, nor the selector *,
\* nor a selector q.* such that field starts with q.
C15_OrderByWarning ==
    [][\A field \in OrderFields, direction \in {<<"asc">>, <<"desc">>} :
          (out'.op = "config" /\ OrderBy("b", field, direction)) =>
              /\ orderClausesOf(WorldAfter, "b")
                   = Append(orderClausesOf(World, "b"),
                            [field |-> field, direction |-> direction])
              /\ console' # <<>> <=> LeftOut(selectionsOf(World, "b"), field)]_vars

-----------------------------------------------------------------------------
(* when (SpecWhen).                                                        *)

\* How many list entries and which limit and offset one invocation of the
\* callback adds to a builder state
InvokedOnce(before, after, body) ==
    /\ after.joins = before.joins
    /\ after.aliasMap = before.aliasMap
    /\ after.selections = before.selections
    /\ after.whereClauses =
          (IF body \in {"where", "whereOffset"}
           THEN Append(before.whereClauses, Arr(<<Str(<<"id">>), Num(1)>>))
           ELSE before.whereClauses)
    /\ after.orderClauses =
          (IF body = "orderBy"
           THEN Append(before.orderClauses, [field |-> <<"id">>, direction |-> <<"desc">>])
           ELSE before.orderClauses)
    /\ after.limitValue = (IF body = "limit" THEN 10 ELSE before.limitValue)
    /\ after.offsetValue = (IF body = "whereOffset" THEN 5 ELSE before.offsetValue)

\* C17: when(condition, callback) invokes callback exactly once on the
\* builder it was called on when condition is true, and when condition is
\* false it invokes nothing and leaves every part of the builder unchanged;
\* either way it returns the builder it was called on, and no other builder
\* changes.
C17_When ==
    [][\A x \in Names, condition \in BOOLEAN, body \in Callbacks :
          (out'.op = "config" /\ out'.who = x /\ When(x, condition, body)) =>
              /\ out'.result = [t |-> "builder", name |-> x]
              /\ DOMAIN builders' = DOMAIN builders
              /\ \A y \in DOMAIN builders \ {x} : StateOf(WorldAfter, y) = StateOf(World, y)
              /\ IF condition
                 THEN InvokedOnce(StateOf(World, x), StateOf(WorldAfter, x), body)
                 ELSE /\ StateOf(WorldAfter, x) = StateOf(World, x)
                      /\ builders' = builders
                      /\ heap' = heap
                      /\ console' = <<>>]_vars

\* C17 witness: when(true, q => q.where('id', 1).offset(5)) has returned on
\* the clone, and the original holds nothing.
C17_Witness ==
    /\ out.op = "config"
    /\ out.who = "c"
    /\ "c" \in DOMAIN builders
    /\ Len(whereClausesOf(World, "c")) = 1
    /\ builders["c"].offsetValue = 5
    /\ Entries("b") = 0

-----------------------------------------------------------------------------
(* BucketResponse (SpecResponse).                                          *)

\* The chunk sequence s holds the chunk sequence part
Contains(s, part) ==
    \E i \in 0..(Len(s) - Len(part)) : SubSeq(s, i + 1, i + Len(part)) = part

\* The rows of the payload: its bucket array, the empty array when absent
RowsOf(payload) == IF HasKey(payload, "bucket") THEN payload.p["bucket"] ELSE Arr(<<>>)

\* What the last read of the response returned agrees with the claim
AsClaimed(payload, op, result) ==
    CASE op = "query" -> result = payload.p["bucketQuery"]
      [] op = "error" ->
            result = (IF HasKey(payload, "error") THEN payload.p["error"] ELSE JsUndefined)
      [] op = "results" ->
            IF HasKey(payload, "error")
            THEN result.t = "throw" /\ Contains(result.message, payload.p["error"].s)
            ELSE result = RowsOf(payload)
      [] op = "first" ->
            IF HasKey(payload, "error")
            THEN result.t = "throw" /\ Contains(result.message, payload.p["error"].s)
            ELSE result = (IF RowsOf(payload).a = <<>> THEN JsUndefined
                           ELSE RowsOf(payload).a[1])
      [] OTHER -> TRUE

\* C16: over a payload whose error field is present, results and first()
\* throw an error whose message holds the payload's error text; over a
\* payload without error field, results returns the bucket array (the empty
\* array when bucket is absent) and first() its first element, or undefined
\* when it is empty; query and error never throw and return the payload's
\* bucketQuery and error as they are.
C16_ResponseAccessors ==
    out.who = "response" => AsClaimed(raw, out.op, out.result)

-----------------------------------------------------------------------------
(* The overloads of join (SpecSelect).                                     *)

\* The entry a join call is to store when its overload is chosen by the
\* number of its arguments: j[4] is undefined for a call with three
DeclaredJoin(j) ==
    IF j[4] # JsUndefined
    THEN [target |-> j[1], alias |-> Str(j[2]), onSource |-> j[3], onTarget |-> j[4].s]
    ELSE [target |-> j[1], alias |-> JsUndefined, onSource |-> j[2], onTarget |-> j[3]]

\* C21: join chooses its overload by the number of its arguments alone: a
\* call with four stores (target, alias, sourceField, targetField) and maps
\* the alias to the target, a call with three stores (target, sourceField,
\* targetField) and maps the target to itself, whatever the values of the
\* arguments, the empty string included.
C21_JoinByArgumentCount ==
    [][\A j \in SelectJoins :
          (out'.op = "config" /\ Join("b", j[1], j[2], j[3], j[4])) =>
              /\ joinsOf(WorldAfter, "b") = Append(joinsOf(World, "b"), DeclaredJoin(j))
              /\ LET key == IF j[4] # JsUndefined THEN Text(j[2]) ELSE j[1]
                 IN  /\ key \in DOMAIN aliasMapOf(WorldAfter, "b")
                     /\ aliasMapOf(WorldAfter, "b")[key] = j[1]]_vars

-----------------------------------------------------------------------------
(* Meta-fields (SpecSelect).                                               *)

\* C22: every string printSQL returns that has a select clause names the
\* meta-fields page_name and page_name_sub among its selectors, whatever
\* fields were selected.
C22_MetaFieldsSelected ==
    Printed("b") =>
        \A text \in {out.result.s} :
            ClausesOpening(text, ".select(") # <<>> =>
                /\ "'page_name'" \in Range(SelectedIn(text))
                /\ "'page_name_sub'" \in Range(SelectedIn(text))

-----------------------------------------------------------------------------
(* One where clause per entry (SpecWhere).                                 *)

\* A condition formatted on its own, as an element of a comma-joined list
FormattedAlone(cond) ==
    LET formatted == formatCondition(World, "b", cond)
    IN  IF formatted.t \in {"undef", "null"} THEN "" ELSE Text(formatted.s)

\* The clause of one entry of the condition list: the conditions of a group
\* formatted one by one and joined by ", ", any other entry formatted alone
ClauseOfEntry(entry) ==
    IF HasKey(entry, "_group")
    THEN ".where("
         \o JoinTexts([k \in 1..Len(entry.p["_group"].a) |->
                          FormattedAlone(entry.p["_group"].a[k])], ", ")
         \o ")"
    ELSE ".where(" \o Text(TemplateString(formatCondition(World, "b", entry))) \o ")"

\* C23: the string printSQL returns has exactly one where clause per entry of
\* the condition list, in the order of the entries; the entry of a where
\* call given several conditions is one clause, its conditions formatted one
\* by one and joined by ", " in the order of the arguments.
C23_OneClausePerEntry ==
    Printed("b") =>
        \A rendered \in {WhereClausesIn(out.result.s)} :
            LET entries == whereClausesOf(World, "b")
            IN  /\ Len(rendered) = Len(entries)
                /\ \A i \in 1..Len(entries) : rendered[i] = ClauseOfEntry(entries[i])

\* C23 witness: printSQL has rendered where(['id', 42], ['name', "Bob's"])
\* followed by where('id', 42): the group as one clause of two conditions,
\* and the second entry after it.
C23_Witness ==
    /\ Printed("b")
    /\ Len(whereClausesOf(World, "b")) = 2
    /\ HasKey(whereClausesOf(World, "b")[1], "_group")
    /\ Len(whereClausesOf(World, "b")[1].p["_group"].a) = 2
    /\ WhereClausesIn(out.result.s)
         = <<".where({ 'id', 42 }, { 'name', 'Bob's' })", ".where({ 'id', 42 })">>

-----------------------------------------------------------------------------
(* The clone renders as its original (SpecCopy).                           *)

\* C24: right after c = b.clone(), printSQL on c returns the string printSQL
\* on b returns, whatever conditions b holds: booleans, nested combinators,
\* absent values and malformed shapes included.
C24_CloneRendersSame ==
    [][(out'.op = "clone" /\ Clone("b", "c")) =>
          \A original \in {printSQL(WorldAfter, "b").result},
             copy \in {printSQL(WorldAfter, "c").result} :
              copy = original]_vars

\* C25: whenever the selection list of a builder is non-empty, the query that
\* printSQL returns holds a select clause with at least one selector; a
\* wildcard '*' or 'q.*' over a bucket without registered fields is rendered
\* as a literal wildcard, never as an empty or missing selection.
C25_SelectClausePresent ==
    (Printed("b") /\ selectionsOf(World, "b") # <<>>) =>
        \A text \in {out.result.s} :
            /\ ClausesOpening(text, ".select(") # <<>>
            /\ SelectedIn(text) # <<>>

-----------------------------------------------------------------------------
(* SpecFrame: one builder taking every configuration call.                  *)

MaxFrameEntries == 2

NextFrame ==
    \/ \E fields \in {<<<<"id">>>>, <<<<"name">>, <<"value">>>>} :
          Entries("b") + Len(fields) <= MaxFrameEntries /\ Select("b", fields)
    \/ \E j \in {<<"exchange", <<"src">>, <<"id">>, Str(<<"name">>)>>,
                 <<"storeline", <<"name">>, <<"sold_by">>, JsUndefined>>,
                 <<"storeline", <<"exchange">>, <<"id">>, Str(<<"name">>)>>} :
          Entries("b") < MaxFrameEntries /\ Join("b", j[1], j[2], j[3], j[4])
    \/ Entries("b") < MaxFrameEntries /\ Where("b", <<NameField, ItsATest>>)
    \/ Entries("b") < MaxFrameEntries /\ WhereNot("b", NameField, Bobs)
    \/ Entries("b") < MaxFrameEntries /\ WhereNull("b", NameField)
    \/ Entries("b") < MaxFrameEntries /\ WhereNotNull("b", NameField)
    \/ Entries("b") + 2 <= MaxFrameEntries /\ WhereBetween("b", NameField, <<Num(1), Num(42)>>)
    \/ Entries("b") < MaxFrameEntries /\ WhereIn("b", NameField, <<Bobs, PathTo>>)
    \/ Entries("b") < MaxFrameEntries /\ OrderBy("b", <<"id">>, <<"desc">>)
    \/ \E n \in {0, 7} : Limit("b", n)
    \/ Offset("b", 5)
    \/ Paginate("b", 3, 10)
    \/ First("b")

SpecFrame == InitWhere /\ [][NextFrame]_vars

\* Whether the list new holds the entries of old, in order, before any other
Extends(old, new) == Len(old) <= Len(new) /\ SubSeq(new, 1, Len(old)) = old

\* The parts of the state of builder x
PartsOf(w, x) ==
    [mainBucket |-> w.builders[x].mainBucket,
     joins |-> joinsOf(w, x),
     selections |-> selectionsOf(w, x),
     whereClauses |-> whereClausesOf(w, x),
     orderClauses |-> orderClausesOf(w, x),
     limitValue |-> w.builders[x].limitValue,
     offsetValue |-> w.builders[x].offsetValue,
     aliasMap |-> aliasMapOf(w, x)]

\* The alias-map keys whose entry differs between two states of a builder
AliasKeysSet(before, after) ==
    {k \in DOMAIN after.aliasMap :
        k \notin DOMAIN before.aliasMap \/ after.aliasMap[k] # before.aliasMap[k]}

\* A step of builder b changed no part outside own, grew the lists in grown by
\* exactly that many entries behind the ones they held, and removed no alias
Framed(own, grown) ==
    \A before \in {PartsOf(World, "b")}, after \in {PartsOf(WorldAfter, "b")} :
        /\ \A p \in DOMAIN before : p \notin own => after[p] = before[p]
        /\ \A p \in DOMAIN grown :
              /\ Extends(before[p], after[p])
              /\ Len(after[p]) = Len(before[p]) + grown[p]
        /\ DOMAIN before.aliasMap \subseteq DOMAIN after.aliasMap
        /\ Cardinality(AliasKeysSet(before, after)) <= 1

\* C26: every configuration call changes only its own part of the builder:
\* select appends its fields to selections; join appends one entry to joins
\* and sets one alias-map entry; where, whereNot, whereNull, whereNotNull and
\* whereIn append one condition and whereBetween two; orderBy appends one
\* ordering; limit and first overwrite the limit, offset the offset, paginate
\* both; every other part stays as it was and no list entry is removed or
\* reordered.
C26_ConfigurationFrame ==
    [][out'.op = "config" =>
          /\ \A fields \in {<<<<"id">>>>, <<<<"name">>, <<"value">>>>} :
                Select("b", fields) =>
                    /\ Framed({"selections"}, [selections |-> Len(fields)])
                    /\ selectionsOf(WorldAfter, "b") = selectionsOf(World, "b") \o fields
          /\ \A j \in {<<"exchange", <<"src">>, <<"id">>, Str(<<"name">>)>>,
                       <<"storeline", <<"name">>, <<"sold_by">>, JsUndefined>>,
                 <<"storeline", <<"exchange">>, <<"id">>, Str(<<"name">>)>>} :
                Join("b", j[1], j[2], j[3], j[4]) =>
                    Framed({"joins", "aliasMap"}, [joins |-> 1])
          /\ (\/ Where("b", <<NameField, ItsATest>>)
              \/ WhereNot("b", NameField, Bobs)
              \/ WhereNull("b", NameField)
              \/ WhereNotNull("b", NameField)
              \/ WhereIn("b", NameField, <<Bobs, PathTo>>)) =>
                    Framed({"whereClauses"}, [whereClauses |-> 1])
          /\ WhereBetween("b", NameField, <<Num(1), Num(42)>>) =>
                    Framed({"whereClauses"}, [whereClauses |-> 2])
          /\ OrderBy("b", <<"id">>, <<"desc">>) =>
                    Framed({"orderClauses"}, [orderClauses |-> 1])
          /\ ((\E n \in {0, 7} : Limit("b", n)) \/ First("b")) =>
                    Framed({"limitValue"}, <<>>)
          /\ Offset("b", 5) => Framed({"offsetValue"}, <<>>)
          /\ Paginate("b", 3, 10) => Framed({"limitValue", "offsetValue"}, <<>>)]_vars

\* C26 witness: first() has acted on a builder that holds a join, a selection
\* and an offset, and left all three in place
C26_Witness ==
    /\ out.op = "config"
    /\ builders["b"].limitValue = 1
    /\ builders["b"].offsetValue = 5
    /\ Len(joinsOf(World, "b")) = 1
    /\ Len(selectionsOf(World, "b")) = 1

\* The configuration calls whose order is compared, by kind
OrderedCalls ==
    {"join", "selectField", "selectAll", "where", "whereNested", "orderBy", "limit", "offset"}

KindOf(call) ==
    CASE call \in {"selectField", "selectAll"} -> "select"
      [] call \in {"where", "whereNested"} -> "where"
      [] OTHER -> call

\* The builder b of w after one of the calls
Called(w, call) ==
    CASE call = "join" -> join(w, "b", "storeline", <<"s">>, <<"id">>, Str(<<"id">>))
      [] call = "selectField" -> select(w, "b", <<<<"s", ".", "name">>>>)
      [] call = "selectAll" -> select(w, "b", <<<<"s", ".", "*">>>>)
      [] call = "where" -> where(w, "b", <<Str(<<"s", ".", "name">>), Num(1)>>)
      [] call = "whereNested" -> where(w, "b", <<NestedCondition(<<"s", ".", "name">>)>>)
      [] call = "orderBy" -> orderBy(w, "b", <<"s", ".", "name">>, <<"asc">>)
      [] call = "limit" -> limit(w, "b", 7)
      [] call = "offset" -> offset(w, "b", 5)

\* C27: for every reachable builder and every two configuration calls of
\* different kinds among join, select, where, orderBy, limit and offset,
\* printSQL returns the same after the two calls in either order; a reference
\* qualified by alias s renders the same whether the join declaring s came
\* before or after it.
C27_CallOrderAcrossKinds ==
    \A f \in OrderedCalls, g \in OrderedCalls :
        KindOf(f) # KindOf(g) =>
            \A fg \in {printSQL(Called(Called(World, f), g), "b").result},
               gf \in {printSQL(Called(Called(World, g), f), "b").result} :
                fg = gf

\* C27 witness: printSQL has rendered a builder that selects s.name and joins
\* storeline as s, the selector resolved to storeline.name
C27_Witness ==
    /\ Printed("b")
    /\ selectionsOf(World, "b") = <<<<"s", ".", "name">>>>
    /\ Len(joinsOf(World, "b")) = 1
    /\ \E i \in 1..(Len(out.result.s) - 2) :
          SubSeq(out.result.s, i, i + 2) = <<"storeline", ".", "name">>

\* C28: in every reachable state the alias map of a builder maps the name of
\* its main bucket to that same bucket, whatever joins were called.
C28_MainBucketResolvesToItself ==
    \A x \in DOMAIN builders :
        /\ builders[x].mainBucket \in DOMAIN aliasMapOf(World, x)
        /\ aliasMapOf(World, x)[builders[x].mainBucket] = builders[x].mainBucket

\* C29: after paginate(page, perPage) with integer arguments the stored
\* offset is (max(page, 1) - 1) times the limit the same call stored.
C29_OffsetInPagesOfTheLimit ==
    [][\A page \in Pages, perPage \in PerPages :
          (out'.op = "config" /\ Paginate("b", page, perPage)) =>
              builders'["b"].offsetValue =
                  ((IF page < 1 THEN 1 ELSE page) - 1) * builders'["b"].limitValue]_vars

\* Whether ref is dotted, with a qualifier that is a key of map and a
\* remainder other than the wildcard
QualifiedByKey(map, ref) ==
    /\ IncludesDot(ref)
    /\ Text(SplitDot(ref)[1]) \in DOMAIN map
    /\ SplitDot(ref)[2] # <<"*">>

\* ref with the bucket map gives for its qualifier in place of the qualifier,
\* and all that follows the first dot as it stands
RemainderKept(map, ref) ==
    LET dot == CHOOSE k \in 1..Len(ref) : ref[k] = "." /\ \A j \in 1..(k - 1) : ref[j] # "."
    IN  map[Text(SubSeq(ref, 1, dot - 1))] \o "." \o Text(SubSeq(ref, dot + 1, Len(ref)))

\* C30: in the string printSQL returns, a dotted reference whose qualifier is
\* a key of the alias map stands with the qualifier replaced and everything
\* after the first dot as written, further dots included: as a selector, as
\* the field of a where condition, as an orderBy field, and as the source
\* field of a join.
C30_RemainderPreserved ==
    Printed("b") =>
        \A text \in {out.result.s} :
            LET map == aliasMapOf(World, "b")
                selections == selectionsOf(World, "b")
                entries == whereClausesOf(World, "b")
                orders == orderClausesOf(World, "b")
                joins == joinsOf(World, "b")
            IN  /\ \A i \in 1..Len(selections) :
                      QualifiedByKey(map, selections[i]) =>
                          "'" \o RemainderKept(map, selections[i]) \o "'"
                              \in Range(SelectedIn(text))
                /\ \A i \in 1..Len(entries) :
                      (/\ entries[i].t = "arr"
                       /\ Len(entries[i].a) = 2
                       /\ QualifiedByKey(map, entries[i].a[1].s)) =>
                          WhereClausesIn(text)[i]
                              = ".where({ '" \o RemainderKept(map, entries[i].a[1].s) \o "', "
                                \o ExpectedValue(entries[i].a[2]) \o " })"
                /\ \A i \in 1..Len(orders) :
                      QualifiedByKey(map, orders[i].field) =>
                          OrderClausesIn(text)[i]
                              = ".orderBy('" \o RemainderKept(map, orders[i].field) \o "', '"
                                \o Text(orders[i].direction) \o "')"
                /\ \A i \in 1..Len(joins) :
                      QualifiedByKey(map, joins[i].onSource) =>
                          Texts(ArgsOf(ClausesOpening(text, ".join(")[i]))[2]
                              = "'" \o RemainderKept(map, joins[i].onSource) \o "'"

====
